---------------------------- MODULE Spec2Model ----------------------------
(***************************************************************************)
(* Model of the multipurpose chatbot's intent resolution engine:           *)
(*   - ContextManager  (backend/models/context_manager.py)                 *)
(*   - IntentClassifier (backend/models/intent_classifier.py)              *)
(* Texts are sequences of one-character strings so that Python's           *)
(* substring tests (`word in text`), lower(), find(), strip() and split()  *)
(* are computed rather than assumed.  Times are integer clock readings.    *)
(* Confidences are fixed-point integers in units of 1/ConfScale.           *)
(***************************************************************************)
EXTENDS Integers, Sequences, FiniteSets, TLC

VARIABLES
    user_contexts,   \* ContextManager.user_contexts: dict user_id -> context
    now,             \* the reading of datetime.now()
    trained,         \* IntentClassifier.trained
    patterns,        \* IntentClassifier.patterns
    tags,            \* IntentClassifier.tags
    vectorizer,      \* IntentClassifier.vectorizer: its fitted vocabulary and idf weights
    X,               \* IntentClassifier.X: the matrix, one weighted row per pattern
    last_call,       \* the last call made: its arguments, its log, its result
    pc,              \* per thread of a concurrent run: the statement it executes next
    frame,           \* per thread of a concurrent run: its arguments and local variables
    snapshot,        \* the shared state when the concurrent run began
    conversation_context,   \* SimpleChatbot.conversation_context: dict user_id -> context
    data,            \* TrainingDataManager.data: the corpus in memory
    data_file,       \* the corpus file on disk
    heap,            \* the Python objects of a run that tracks object identity, by id
    caller           \* the ids of the dicts the caller of export_context/import_context holds

storeVars == <<user_contexts, now>>
indexVars == <<trained, patterns, tags, vectorizer, X>>
threadVars == <<pc, frame, snapshot>>
chatVars == <<conversation_context>>
corpusVars == <<data, data_file>>
objectVars == <<heap, caller>>
vars == <<user_contexts, now, trained, patterns, tags, vectorizer, X, last_call,
          pc, frame, snapshot, conversation_context, data, data_file, heap, caller>>

-----------------------------------------------------------------------------
(* Bounds of the model *)

MaxContextLength == 2     \* max_context_length (default 10), scaled down
SessionTimeout == 1       \* session_timeout in clock ticks (default 3600 s), scaled down

MaxTime == SessionTimeout + 2          \* the clock stops advancing here
MaxMessages == MaxContextLength + 1    \* update_context is applied to a context at most this often

-----------------------------------------------------------------------------
(* Python values *)

None == "None"

Users == {"u1", "u2"}
Senders == {"u1"}         \* the users that send messages; the others only open sessions
Applications == {"customer_support", "college_helpdesk"}
Intents == {"greeting", "order_status"}

-----------------------------------------------------------------------------
(* Python str operations on sequences of characters *)

UpperToLower ==
    [c \in {"A", "B", "G", "S", "T", "M", "I", "C", "N"} |->
        CASE c = "A" -> "a" [] c = "B" -> "b" [] c = "G" -> "g"
          [] c = "S" -> "s" [] c = "T" -> "t" [] c = "M" -> "m"
          [] c = "I" -> "i" [] c = "C" -> "c" [] c = "N" -> "n"]

\* str.lower()
Lower(s) ==
    [i \in 1..Len(s) |-> IF s[i] \in DOMAIN UpperToLower THEN UpperToLower[s[i]] ELSE s[i]]

\* s[i:i+len(p)] == p, i a 1-based position
MatchesAt(s, p, i) ==
    /\ i >= 1
    /\ i + Len(p) - 1 <= Len(s)
    /\ \A j \in 1..Len(p) : s[i + j - 1] = p[j]

\* p in s
Contains(s, p) == \E i \in 1..(Len(s) + 1) : MatchesAt(s, p, i)

\* s.find(p): the lowest 0-based index, -1 when absent
Find(s, p) ==
    IF Contains(s, p)
    THEN (CHOOSE i \in 1..(Len(s) + 1) :
              /\ MatchesAt(s, p, i)
              /\ \A k \in 1..(i - 1) : ~MatchesAt(s, p, k)) - 1
    ELSE -1

Whitespace == {" "}

\* s[k:], k a 0-based index
SliceFrom(s, k) == IF k >= Len(s) THEN <<>> ELSE SubSeq(s, k + 1, Len(s))

\* s.split()[0] when s.split() is not empty, else None
FirstToken(s) ==
    LET starts == {i \in 1..Len(s) : s[i] \notin Whitespace}
    IN  IF starts = {} THEN None
        ELSE LET b == CHOOSE i \in starts : \A k \in starts : i <= k
                 ends == {i \in b..Len(s) : i = Len(s) \/ s[i + 1] \in Whitespace}
                 e == CHOOSE i \in ends : \A k \in ends : i <= k
             IN  SubSeq(s, b, e)

\* any(word in text for word in words)
AnyIn(words, text) == \E w \in words : Contains(text, w)

-----------------------------------------------------------------------------
(* dicts: functions whose domain is the set of keys present *)

EmptyDict == [k \in {} |-> None]

DictSet(d, k, v) == [x \in (DOMAIN d) \cup {k} |-> IF x = k THEN v ELSE d[x]]

DictDel(d, k) == [x \in (DOMAIN d) \ {k} |-> d[x]]

DictGet(d, k, default) == IF k \in DOMAIN d THEN d[k] ELSE default

-----------------------------------------------------------------------------
(* ContextManager: inputs *)

\* "Thanks", "good order, bad error", "call me Al"
T_thanks == <<"T","h","a","n","k","s">>
T_mixed == <<"g","o","o","d"," ","o","r","d","e","r",","," ","b","a","d"," ","e","r","r","o","r">>
T_name == <<"c","a","l","l"," ","m","e"," ","A","l">>

\* inputs that introduce a name, or come close to it
T_sam == <<"m","y"," ","n","a","m","e"," ","i","s"," ","S","a","m",".">>
T_called == <<"I","'","m"," ","c","a","l","l","e","d"," ","D","i",","," ","o","k">>
T_short == <<"I"," ","a","m"," ","X">>
T_nothing == <<"M","y"," ","n","a","m","e"," ","i","s"," ">>

UserInputs == {T_thanks, T_mixed, T_name, T_sam, T_called, T_short, T_nothing}

\* the inputs of the turns recorded when the subject is names
NameInputs == {T_thanks, T_name, T_sam, T_called, T_short, T_nothing}

\* the update_context calls the model makes: (user_input, bot_response, intent, application)
Requests ==
    { <<T_thanks, "ok", "greeting", "college_helpdesk">>,
      <<T_mixed, "ok", "order_status", "college_helpdesk">>,
      <<T_name, "ok", "greeting", "customer_support">> }

-----------------------------------------------------------------------------
(* ContextManager: helpers *)

\* collections.deque(maxlen=maxlen).append(x)
DequeAppendUnbounded(h, x, maxlen) == Append(h, x)

DequeAppendDropNewest(h, x, maxlen) == IF Len(h) >= maxlen THEN h ELSE Append(h, x)

DequeAppend(h, x, maxlen) ==
    IF Len(h) >= maxlen THEN Append(Tail(h), x) ELSE Append(h, x)

\* _create_new_context
CreateNewContext(user_id, t) ==
    [user_id |-> user_id,
     conversation_history |-> <<>>,
     current_application |-> "customer_support",
     user_name |-> None,
     user_preferences |-> EmptyDict,
     session_start |-> t,
     last_activity |-> t,
     message_count |-> 0,
     context_variables |-> EmptyDict]

\* the test of _cleanup_expired_sessions: session_age > self.session_timeout
ExpiredLate(context, t) == t - context.last_activity > SessionTimeout + 1

Expired(context, t) == t - context.last_activity > SessionTimeout

\* _cleanup_expired_sessions: the users it deletes
ExpiredUsers(contexts, t) == {u \in DOMAIN contexts : Expired(contexts[u], t)}

\* _cleanup_expired_sessions: the dict it leaves
CleanupExpiredSessions(contexts, t) ==
    [u \in (DOMAIN contexts) \ ExpiredUsers(contexts, t) |-> contexts[u]]

\* get_context: the dict after the call
GetContextDictWithoutTouch(contexts, user_id, t) ==
    LET live == CleanupExpiredSessions(contexts, t)
    IN  IF user_id \notin DOMAIN live
        THEN DictSet(live, user_id, CreateNewContext(user_id, t))
        ELSE live

GetContextDict(contexts, user_id, t) ==
    LET live == CleanupExpiredSessions(contexts, t)
    IN  IF user_id \notin DOMAIN live
        THEN DictSet(live, user_id, CreateNewContext(user_id, t))
        ELSE [live EXCEPT ![user_id].last_activity = t]

NamePatterns ==
    << <<"m","y"," ","n","a","m","e"," ","i","s">>,
       <<"i","'","m"," ","c","a","l","l","e","d">>,
       <<"i"," ","a","m">>,
       <<"c","a","l","l"," ","m","e">>,
       <<"y","o","u"," ","c","a","n"," ","c","a","l","l"," ","m","e">> >>

\* _extract_user_name: the name it accepts from user_input, None when it accepts none
AcceptedName(user_input) ==
    LET lower == Lower(user_input)
        hits == {i \in 1..Len(NamePatterns) : Contains(lower, NamePatterns[i])}
    IN  IF hits = {} THEN None
        ELSE LET first == CHOOSE i \in hits : \A k \in hits : i <= k
                 pattern == NamePatterns[first]
                 name_start == Find(lower, pattern) + Len(pattern)
                 name == FirstToken(SliceFrom(user_input, name_start))
             IN  IF name # None /\ Len(name) > 1 THEN name ELSE None

\* AcceptedName over the model's inputs, computed once
AcceptedNameOf == [i \in UserInputs |-> AcceptedName(i)]

\* _extract_user_name: the user_name it leaves
ExtractUserNameResets(user_name, user_input) == AcceptedNameOf[user_input]

ExtractUserName(user_name, user_input) ==
    IF AcceptedNameOf[user_input] # None THEN AcceptedNameOf[user_input] ELSE user_name

IssueWords ==
    { <<"p","r","o","b","l","e","m">>, <<"i","s","s","u","e">>, <<"e","r","r","o","r">>,
      <<"n","o","t"," ","w","o","r","k","i","n","g">> }

OrderWord == <<"o","r","d","e","r">>

PositiveWords ==
    { <<"g","r","e","a","t">>, <<"g","o","o","d">>, <<"e","x","c","e","l","l","e","n","t">>,
      <<"t","h","a","n","k","s">>, <<"t","h","a","n","k"," ","y","o","u">>,
      <<"a","w","e","s","o","m","e">> }

NegativeWords ==
    { <<"b","a","d">>, <<"t","e","r","r","i","b","l","e">>, <<"a","w","f","u","l">>,
      <<"h","o","r","r","i","b","l","e">>,
      <<"d","i","s","a","p","p","o","i","n","t","e","d">> }

\* the tests of _update_context_variables over the model's inputs, computed once
HasIssueWord == [i \in UserInputs |-> AnyIn(IssueWords, Lower(i))]
HasOrderWord == [i \in UserInputs |-> Contains(Lower(i), OrderWord)]
HasPositiveWord == [i \in UserInputs |-> AnyIn(PositiveWords, Lower(i))]
HasNegativeWord == [i \in UserInputs |-> AnyIn(NegativeWords, Lower(i))]

\* the two sentiment loops of _update_context_variables
SentimentFirstHitWins(cv, user_input) ==
    IF HasPositiveWord[user_input] THEN DictSet(cv, "last_sentiment", "positive")
    ELSE IF HasNegativeWord[user_input] THEN DictSet(cv, "last_sentiment", "negative")
    ELSE cv

UpdateSentiment(cv, user_input) ==
    LET cv1 == IF HasPositiveWord[user_input]
               THEN DictSet(cv, "last_sentiment", "positive") ELSE cv
    IN  IF HasNegativeWord[user_input]
        THEN DictSet(cv1, "last_sentiment", "negative") ELSE cv1

\* _update_context_variables: the context_variables it leaves
UpdateContextVariables(cv, user_input, intent) ==
    LET cv1 == IF HasIssueWord[user_input] THEN DictSet(cv, "has_issues", TRUE) ELSE cv
        cv2 == IF HasOrderWord[user_input]
               THEN DictSet(cv1, "discussing_orders", TRUE) ELSE cv1
    IN  UpdateSentiment(cv2, user_input)

\* the history entry update_context appends
Turn(t, user_input, bot_response, intent, application) ==
    [timestamp |-> t,
     user_input |-> user_input,
     bot_response |-> bot_response,
     intent |-> intent,
     application |-> application]

\* update_context, after get_context returned `context`
UpdatedContextCountsHistory(context, t, user_input, bot_response, intent, application) ==
    [context EXCEPT
        !.conversation_history =
            DequeAppend(@, Turn(t, user_input, bot_response, intent, application),
                        MaxContextLength),
        !.current_application = application,
        !.message_count = IF @ < MaxContextLength THEN @ + 1 ELSE @,
        !.user_name = ExtractUserName(@, user_input),
        !.context_variables = UpdateContextVariables(@, user_input, intent)]

UpdatedContext(context, t, user_input, bot_response, intent, application) ==
    [context EXCEPT
        !.conversation_history =
            DequeAppend(@, Turn(t, user_input, bot_response, intent, application),
                        MaxContextLength),
        !.current_application = application,
        !.message_count = @ + 1,
        !.user_name = ExtractUserName(@, user_input),
        !.context_variables = UpdateContextVariables(@, user_input, intent)]

\* _get_session_duration
SessionDuration(context, t) == t - context.session_start

\* one entry of get_all_active_sessions
SessionSummary(context, t) ==
    [user_id |-> context.user_id,
     user_name |-> context.user_name,
     current_application |-> context.current_application,
     message_count |-> context.message_count,
     session_duration |-> SessionDuration(context, t),
     last_activity |-> context.last_activity]

NoCall == [op |-> "none", user_id |-> None, args |-> None, expired |-> {}, result |-> None]

-----------------------------------------------------------------------------
(* ContextManager: operations *)

\* __init__
InitStore ==
    /\ user_contexts = EmptyDict
    /\ now = 0
    /\ last_call = NoCall

\* no concurrent run is under way
NoThreads ==
    /\ pc = <<>>
    /\ frame = <<>>
    /\ snapshot = <<>>

\* SimpleChatbot.__init__
InitChatbot == conversation_context = EmptyDict

\* no object is tracked by identity
NoObjects ==
    /\ heap = <<>>
    /\ caller = {}

\* the corpus file does not exist
NoFile == [exists |-> FALSE]

\* TrainingDataManager.__init__: self.data = {}, nothing read or written yet
InitData ==
    /\ data = EmptyDict
    /\ data_file = NoFile

\* time passes between calls
Tick ==
    /\ now < MaxTime
    /\ now' = now + 1
    /\ last_call' = NoCall
    /\ UNCHANGED <<user_contexts, indexVars, threadVars, chatVars, objectVars, corpusVars>>

\* get_context(user_id); it returns the stored dict itself, user_contexts[result]
GetContext(user_id) ==
    /\ user_contexts' = GetContextDict(user_contexts, user_id, now)
    /\ last_call' = [op |-> "get_context", user_id |-> user_id, args |-> None,
                     expired |-> ExpiredUsers(user_contexts, now),
                     result |-> user_id]
    /\ UNCHANGED <<now, indexVars, threadVars, chatVars, objectVars, corpusVars>>

\* update_context(user_id, user_input, bot_response, intent, application)
UpdateContext(user_id, user_input, bot_response, intent, application) ==
    LET got == GetContextDict(user_contexts, user_id, now)
    IN  /\ got[user_id].message_count < MaxMessages
        /\ user_contexts' =
               [got EXCEPT ![user_id] =
                   UpdatedContext(@, now, user_input, bot_response, intent, application)]
        /\ last_call' = [op |-> "update_context", user_id |-> user_id,
                         args |-> Turn(now, user_input, bot_response, intent, application),
                         expired |-> ExpiredUsers(user_contexts, now),
                         result |-> None]
        /\ UNCHANGED <<now, indexVars, threadVars, chatVars, objectVars, corpusVars>>

\* clear_context(user_id)
ClearContext(user_id) ==
    /\ user_contexts' = IF user_id \in DOMAIN user_contexts
                        THEN DictDel(user_contexts, user_id) ELSE user_contexts
    /\ last_call' = [op |-> "clear_context", user_id |-> user_id, args |-> None,
                     expired |-> {}, result |-> (user_id \in DOMAIN user_contexts)]
    /\ UNCHANGED <<now, indexVars, threadVars, chatVars, objectVars, corpusVars>>

\* get_all_active_sessions()
GetAllActiveSessions ==
    /\ user_contexts' = CleanupExpiredSessions(user_contexts, now)
    /\ last_call' = [op |-> "get_all_active_sessions", user_id |-> None, args |-> None,
                     expired |-> ExpiredUsers(user_contexts, now),
                     result |-> {SessionSummary(user_contexts'[u], now) :
                                     u \in DOMAIN user_contexts'}]
    /\ UNCHANGED <<now, indexVars, threadVars, chatVars, objectVars, corpusVars>>

-----------------------------------------------------------------------------
(* IntentClassifier: the TF-IDF vector space.  A text is the sequence of its   *)
(* lower-case word tokens; a feature is a unigram or a bigram of the tokens    *)
(* left after stop-word removal.  Weights are tf * idf with idf in tenths;     *)
(* rows stand for their L2-normalised form, the normalisation being done in    *)
(* the cosine.                                                                 *)

ConfScale == 1000000      \* the confidence 1.0
MinConfidence == 300000   \* min_confidence = 0.3

\* the words of the model's corpora and queries, in sort order
WordOrder ==
    <<"apply", "bar", "course", "foo", "hours", "library", "nonsense", "order", "refund",
      "registration", "request", "status", "xyzxyz">>

\* members of the vectorizer's English stop-word list
StopWords == {"where", "is", "my", "please", "how", "to"}

WordRank(w) == CHOOSE i \in 1..Len(WordOrder) : WordOrder[i] = w

\* the analyzer: stop words removed
Tokens(text) == SelectSeq(text, LAMBDA w : w \notin StopWords)

\* ngram_range=(1, 2): the unigrams and bigrams of a text
Features(text) ==
    LET tokens == Tokens(text)
    IN  {<<tokens[i]>> : i \in 1..Len(tokens)}
            \cup {<<tokens[i], tokens[i + 1]>> : i \in 1..(Len(tokens) - 1)}

\* the term frequency of feature f in a token sequence
TermCount(tokens, f) ==
    Cardinality({i \in 1..(Len(tokens) - Len(f) + 1) : SubSeq(tokens, i, i + Len(f) - 1) = f})

\* the order of feature names ("order" < "order status" < "status")
FeatureLess(f, g) ==
    \/ WordRank(f[1]) < WordRank(g[1])
    \/ /\ f[1] = g[1]
       /\ \/ Len(f) < Len(g)
          \/ Len(f) = 2 /\ Len(g) = 2 /\ WordRank(f[2]) < WordRank(g[2])

RECURSIVE SortFeatures(_)
SortFeatures(S) ==
    IF S = {} THEN <<>>
    ELSE LET m == CHOOSE f \in S : \A g \in S \ {f} : FeatureLess(f, g)
         IN  <<m>> \o SortFeatures(S \ {m})

\* 10 * (ln((1 + n) / (1 + df)) + 1), rounded: the smoothed idf for n documents
IdfTable ==
    << <<10>>,
       <<14, 10>>,
       <<17, 13, 10>>,
       <<19, 15, 12, 10>>,
       <<21, 17, 14, 12, 10>>,
       <<23, 18, 16, 13, 12, 10>> >>

\* a function over 1..n written out as a tuple, each element computed once
AsTuple(f) == SubSeq(f, 1, Len(f))

RECURSIVE DotUpTo(_, _, _)
DotUpTo(a, b, k) == IF k = 0 THEN 0 ELSE a[k] * b[k] + DotUpTo(a, b, k - 1)

\* the integer square root
RECURSIVE ISqrtBetween(_, _, _)
ISqrtBetween(n, lo, hi) ==
    IF lo >= hi THEN lo
    ELSE LET mid == (lo + hi + 1) \div 2
         IN  IF mid * mid <= n THEN ISqrtBetween(n, mid, hi) ELSE ISqrtBetween(n, lo, mid - 1)

ISqrt(n) == ISqrtBetween(n, 0, IF n < 46340 THEN n ELSE 46340)

NotFitted == [vocabulary |-> <<>>, idf |-> <<>>]

\* self.X = None
NoMatrix == [none |-> TRUE]

\* TfidfVectorizer.fit: the sorted vocabulary and the idf of each column
Fit(docs) ==
    LET vocabulary == SortFeatures(UNION {Features(docs[i]) : i \in 1..Len(docs)})
        df(f) == Cardinality({i \in 1..Len(docs) : f \in Features(docs[i])})
    IN  [vocabulary |-> vocabulary,
         idf |-> [k \in 1..Len(vocabulary) |-> IdfTable[Len(docs)][df(vocabulary[k])]]]

\* fit raises ValueError("empty vocabulary ...") when no document holds a term
FitRaises(docs) == UNION {Features(docs[i]) : i \in 1..Len(docs)} = {}

\* TfidfVectorizer.transform([text])[0]: terms outside the vocabulary weigh nothing
Transform(vec, text) ==
    LET tokens == Tokens(text)
    IN  AsTuple([k \in 1..Len(vec.vocabulary) |->
                     TermCount(tokens, vec.vocabulary[k]) * vec.idf[k]])

Dot(a, b) == DotUpTo(a, b, Len(a))

\* cosine_similarity of two rows: 0 where a magnitude is 0
CosineZeroIsOne(a, b) ==
    LET aa == Dot(a, a)
        bb == Dot(b, b)
    IN  IF aa = 0 \/ bb = 0 THEN ConfScale
        ELSE ((Dot(a, b) * 1000) \div ISqrt(aa * bb)) * (ConfScale \div 1000)

Cosine(a, b) ==
    LET aa == Dot(a, a)
        bb == Dot(b, b)
    IN  IF aa = 0 \/ bb = 0 THEN 0
        ELSE ((Dot(a, b) * 1000) \div ISqrt(aa * bb)) * (ConfScale \div 1000)

\* cosine_similarity(text_vector, self.X) raises unless the column counts agree
SimilarityRaises(q, matrix) ==
    \/ matrix = NoMatrix
    \/ \E i \in 1..Len(matrix.rows) : Len(matrix.rows[i]) # Len(q)

\* cosine_similarity(text_vector, self.X)[0]
Similarities(q, matrix) ==
    AsTuple([i \in 1..Len(matrix.rows) |-> Cosine(q, matrix.rows[i])])

\* np.argmax: the first index of the maximum
ArgMax(sims) ==
    CHOOSE i \in 1..Len(sims) :
        /\ \A j \in 1..Len(sims) : sims[j] <= sims[i]
        /\ \A j \in 1..(i - 1) : sims[j] < sims[i]

-----------------------------------------------------------------------------
(* IntentClassifier: inputs *)

MaxHistory == 4           \* the longest history handed to predict

\* training data: the applications in dict order, each with its patterns and tags
CorpusMain ==
    << [name |-> "customer_support",
        patterns |-> << <<"order", "status">>, <<"refund", "request">> >>,
        tags |-> <<"order_status", "refund">>],
       [name |-> "college_helpdesk",
        patterns |-> << <<"library", "hours">>, <<"course", "registration">> >>,
        tags |-> <<"facilities", "registration">>] >>

CorpusSingle ==
    << [name |-> "custom_app",
        patterns |-> << <<"foo", "bar">> >>,
        tags |-> <<"foo_tag">>] >>

CorpusStopWordsOnly ==
    << [name |-> "customer_support",
        patterns |-> << <<"where", "is">> >>,
        tags |-> <<"greeting">>] >>

CorpusNoApplications == <<>>

\* customer_support has two patterns and one tag
CorpusMismatched ==
    << [name |-> "customer_support",
        patterns |-> << <<"order", "status">>, <<"refund", "request">> >>,
        tags |-> <<"order_status">>],
       [name |-> "college_helpdesk",
        patterns |-> << <<"library", "hours">>, <<"course", "registration">> >>,
        tags |-> <<"facilities", "registration">>] >>

Corpora ==
    {CorpusMain, CorpusSingle, CorpusStopWordsOnly, CorpusNoApplications, CorpusMismatched}

Queries ==
    { <<>>,
      <<"where", "is", "my", "order", "status", "please">>,
      <<"order">>,
      <<"order", "refund", "library", "course">>,
      <<"xyzxyz", "nonsense">>,
      <<"foo", "bar">> }

QueryApplications == {"customer_support", "college_helpdesk", "custom_app"}

HistoryIntents == {"order_status", "greeting"}

\* predict's context=None; like an empty dict it is falsy and has no history key
NoContext == [none |-> TRUE]

\* the contexts handed to predict: None, or a context with a history of turns
PredictContexts ==
    {NoContext} \cup
    {[conversation_history |-> [i \in DOMAIN h |-> [intent |-> h[i]]]] :
        h \in UNION {[1..n -> HistoryIntents] : n \in 0..MaxHistory}}

-----------------------------------------------------------------------------
(* IntentClassifier: helpers *)

Min(a, b) == IF a <= b THEN a ELSE b

\* train, line 65: len(patterns) != len(tags) makes the loop skip the application
CountsAgreeAlways(app) == TRUE

CountsAgree(app) == Len(app.patterns) = Len(app.tags)

\* train: all_patterns and all_tags, from the applications whose counts agree
RECURSIVE Collect(_)
Collect(applications) ==
    IF applications = <<>> THEN [patterns |-> <<>>, tags |-> <<>>]
    ELSE LET app == Head(applications)
             rest == Collect(Tail(applications))
         IN  IF ~CountsAgree(app) THEN rest
             ELSE [patterns |-> app.patterns \o rest.patterns,
                   tags |-> [i \in 1..Len(app.tags) |->
                                [application |-> app.name, tag |-> app.tags[i]]]
                            \o rest.tags]

\* self.vectorizer.fit_transform(all_patterns): the matrix
FitTransform(docs) == [rows |-> [i \in 1..Len(docs) |-> Transform(Fit(docs), docs[i])]]

\* the intents of the last 3 turns
RecentIntents(history, window) ==
    {history[i].intent : i \in {k \in 1..Len(history) : k > Len(history) - window}}

\* _apply_context_scoring
ApplyContextScoringWindow4(confidence, tag_info, application, context) ==
    LET in_app == IF tag_info.application = application
                  THEN Min((confidence * 11) \div 10, ConfScale)
                  ELSE confidence
    IN  IF /\ context # NoContext
           /\ "conversation_history" \in DOMAIN context
           /\ context.conversation_history # <<>>
           /\ tag_info.tag \in RecentIntents(context.conversation_history, 4)
        THEN (in_app * 105) \div 100
        ELSE in_app

ApplyContextScoring(confidence, tag_info, application, context) ==
    LET in_app == IF tag_info.application = application
                  THEN Min((confidence * 11) \div 10, ConfScale)
                  ELSE confidence
    IN  IF /\ context # NoContext
           /\ "conversation_history" \in DOMAIN context
           /\ context.conversation_history # <<>>
           /\ tag_info.tag \in RecentIntents(context.conversation_history, 3)
        THEN (in_app * 105) \div 100
        ELSE in_app

\* the tuple predict returns: (intent_tag, confidence_score)
Returned(tag, confidence) == [tag |-> tag, confidence |-> confidence]

\* predict: the else branch of the threshold test
BelowThresholdForcedToZero(confidence) == Returned("unknown", 0)

BelowThreshold(confidence) == Returned("unknown", confidence)

\* predict: from the similarities on
Decide(sims, tagList, application, context) ==
    LET best_match_idx == ArgMax(sims)
        confidence == sims[best_match_idx]
    IN  IF confidence >= MinConfidence
        THEN IF best_match_idx > Len(tagList)
             THEN Returned("unknown", 0)
             ELSE Returned(tagList[best_match_idx].tag,
                           ApplyContextScoring(confidence, tagList[best_match_idx],
                                               application, context))
        ELSE BelowThreshold(confidence)

\* predict, lines 109-112: the similarities, <<>> where computing them raises
Score(vec, matrix, text) ==
    LET text_vector == Transform(vec, text)
    IN  IF SimilarityRaises(text_vector, matrix) THEN <<>>
        ELSE Similarities(text_vector, matrix)

\* predict, on one reading of the index fields, given the similarities
PredictOn(isTrained, sims, tagList, application, context) ==
    IF ~isTrained \/ sims = <<>> THEN Returned("unknown", 0)
    ELSE Decide(sims, tagList, application, context)

-----------------------------------------------------------------------------
(* IntentClassifier: operations *)

\* __init__
InitClassifier ==
    /\ trained = FALSE
    /\ patterns = <<>>
    /\ tags = <<>>
    /\ vectorizer = NotFitted
    /\ X = NoMatrix

Init ==
    /\ InitStore
    /\ InitClassifier
    /\ NoThreads
    /\ InitChatbot
    /\ NoObjects
    /\ InitData

TrainCall(training_data, result) ==
    [op |-> "train", user_id |-> None, args |-> training_data, expired |-> {},
     result |-> result]

\* train(training_data) / retrain(new_data)
Train(training_data) ==
    LET all == Collect(training_data)
    IN  \/ /\ all.patterns = <<>>
           /\ last_call' = TrainCall(training_data, FALSE)
           /\ UNCHANGED <<indexVars, storeVars, threadVars, chatVars, objectVars, corpusVars>>
        \/ /\ all.patterns # <<>>
           /\ FitRaises(all.patterns)
           /\ patterns' = all.patterns
           /\ tags' = all.tags
           /\ trained' = FALSE
           /\ last_call' = TrainCall(training_data, FALSE)
           /\ UNCHANGED <<vectorizer, X, storeVars, threadVars, chatVars, objectVars, corpusVars>>
        \/ /\ all.patterns # <<>>
           /\ ~FitRaises(all.patterns)
           /\ patterns' = all.patterns
           /\ tags' = all.tags
           /\ vectorizer' = Fit(all.patterns)
           /\ X' = FitTransform(all.patterns)
           /\ trained' = TRUE
           /\ last_call' = TrainCall(training_data, TRUE)
           /\ UNCHANGED <<storeVars, threadVars, chatVars, objectVars, corpusVars>>

\* predict(text, application, context), for every application and context
Predict(text) ==
    \E sims \in {IF trained THEN Score(vectorizer, X, text) ELSE <<>>} :
        /\ \E application \in QueryApplications, context \in PredictContexts :
               last_call' = [op |-> "predict", user_id |-> None,
                             args |-> [text |-> text, application |-> application,
                                       context |-> context],
                             expired |-> {},
                             result |-> PredictOn(trained, sims, tags,
                                                  application, context)]
        /\ UNCHANGED <<indexVars, storeVars, threadVars, chatVars, objectVars, corpusVars>>

ClassifierNext ==
    \/ \E c \in Corpora : Train(c)
    \/ \E q \in Queries : Predict(q)

SpecClassifier == Init /\ [][ClassifierNext]_vars

-----------------------------------------------------------------------------
(* IntentClassifier.get_similar_intents.  np.argsort is called with its        *)
(* default kind, which is not a stable sort: the order it gives to equal       *)
(* similarities depends on the numpy build, so every ascending order is an     *)
(* outcome.                                                                    *)

MaxTopK == 3              \* the largest top_k asked for

\* "how to apply" is a pattern of two applications
CorpusTies ==
    << [name |-> "college_helpdesk",
        patterns |-> << <<"how", "to", "apply">>, <<"library", "hours">> >>,
        tags |-> <<"admissions", "facilities">>],
       [name |-> "hr_recruitment",
        patterns |-> << <<"how", "to", "apply">>, <<"course", "registration">> >>,
        tags |-> <<"application", "registration">>] >>

SimilarCorpora ==
    {CorpusMain, CorpusTies, CorpusSingle, CorpusStopWordsOnly, CorpusNoApplications}

SimilarQueries ==
    { <<>>,
      <<"how", "to", "apply">>,
      <<"library", "hours">>,
      <<"order", "refund", "library", "course">>,
      <<"where", "is", "my", "order", "status", "please">>,
      <<"foo", "bar">> }

\* np.argsort(similarities[0]): the row numbers in an ascending order of similarity
ArgSort(sims) ==
    {order \in [1..Len(sims) -> 1..Len(sims)] :
        /\ \A i, j \in 1..Len(sims) : i # j => order[i] # order[j]
        /\ \A i \in 1..(Len(sims) - 1) : sims[order[i]] <= sims[order[i + 1]]}

\* order[-top_k:][::-1]: the last top_k entries, last first; -0 is 0, so with
\* top_k = 0 the slice is the whole array
TopIndices(order, top_k) ==
    LET n == Len(order)
        kept == IF top_k = 0 THEN n ELSE Min(top_k, n)
    IN  AsTuple([i \in 1..kept |-> order[n + 1 - i]])

\* the loop over top_indices: rows of similarity 0 are left out
SimilarResults(sims, tagList, top_indices) ==
    LET positive == SelectSeq(top_indices, LAMBDA idx : sims[idx] > 0)
    IN  AsTuple([i \in 1..Len(positive) |->
                    [tag |-> tagList[positive[i]].tag, confidence |-> sims[positive[i]]]])

\* get_similar_intents(text, top_k)
GetSimilarIntents(text, top_k) ==
    /\ \E sims \in {IF trained THEN Score(vectorizer, X, text) ELSE <<>>} :
           \/ /\ sims = <<>>
              /\ last_call' = [op |-> "get_similar_intents", user_id |-> None,
                               args |-> [text |-> text, top_k |-> top_k],
                               expired |-> {}, result |-> <<>>]
           \/ /\ sims # <<>>
              /\ \E order \in ArgSort(sims) :
                     last_call' = [op |-> "get_similar_intents", user_id |-> None,
                                   args |-> [text |-> text, top_k |-> top_k],
                                   expired |-> {},
                                   result |-> SimilarResults(sims, tags,
                                                             TopIndices(order, top_k))]
    /\ UNCHANGED <<indexVars, storeVars, threadVars, chatVars, objectVars, corpusVars>>

SimilarNext ==
    \/ \E c \in SimilarCorpora : Train(c)
    \/ \E q \in SimilarQueries, k \in 0..MaxTopK : GetSimilarIntents(q, k)

SpecSimilar == Init /\ [][SimilarNext]_vars

-----------------------------------------------------------------------------
(* The context store on its own: calls arrive one at a time *)

Next ==
    \/ Tick
    \/ \E u \in Users : GetContext(u)
    \/ \E u \in Senders, q \in Requests : UpdateContext(u, q[1], q[2], q[3], q[4])
    \/ \E u \in Users : ClearContext(u)
    \/ GetAllActiveSessions

Spec == Init /\ [][Next]_vars

-----------------------------------------------------------------------------
(* IntentClassifier under threads: one thread runs train on an index a        *)
(* request thread is querying.  Neither method takes a lock; each statement   *)
(* that reads or writes a field of the classifier is one step.                *)

TheIndex ==
    [trained |-> trained, patterns |-> patterns, tags |-> tags,
     vectorizer |-> vectorizer, X |-> X]

NewIndex ==
    [trained |-> FALSE, patterns |-> <<>>, tags |-> <<>>,
     vectorizer |-> NotFitted, X |-> NoMatrix]

\* train run from start to end on an index, with no other thread
AfterTrain(index, training_data) ==
    LET all == Collect(training_data)
    IN  IF all.patterns = <<>> THEN index
        ELSE IF FitRaises(all.patterns)
        THEN [index EXCEPT !.patterns = all.patterns, !.tags = all.tags,
                           !.trained = FALSE]
        ELSE [trained |-> TRUE, patterns |-> all.patterns, tags |-> all.tags,
              vectorizer |-> Fit(all.patterns), X |-> FitTransform(all.patterns)]

\* a local variable not yet assigned
Unassigned == [unassigned |-> TRUE]

RaceApplications == {"customer_support"}
RaceContexts == {NoContext}

\* an index some train call has left behind, a retrain and a query starting on it
TrainRaceInit ==
    /\ InitStore
    /\ InitChatbot
    /\ NoObjects
    /\ InitData
    /\ \E old \in Corpora, new \in Corpora, text \in Queries,
          application \in RaceApplications, context \in RaceContexts :
          LET index == AfterTrain(NewIndex, old)
          IN  /\ trained = index.trained
              /\ patterns = index.patterns
              /\ tags = index.tags
              /\ vectorizer = index.vectorizer
              /\ X = index.X
              /\ snapshot = index
              /\ pc = [trainer |-> "train", predictor |-> "predict"]
              /\ frame = [trainer |-> [training_data |-> new, result |-> Unassigned],
                          predictor |-> [text |-> text, application |-> application,
                                         context |-> context,
                                         text_vector |-> Unassigned,
                                         similarities |-> Unassigned,
                                         result |-> Unassigned]]

Finish(thread, result) ==
    /\ pc' = [pc EXCEPT ![thread] = "done"]
    /\ frame' = [frame EXCEPT ![thread].result = result]

Goto(thread, label) == pc' = [pc EXCEPT ![thread] = label]

\* train, lines 56-76: collect the patterns; self.patterns = all_patterns
TrainStorePatterns ==
    /\ pc.trainer = "train"
    /\ LET all == Collect(frame.trainer.training_data)
       IN  IF all.patterns = <<>>
           THEN /\ Finish("trainer", FALSE)
                /\ UNCHANGED <<indexVars, storeVars, last_call, chatVars, objectVars, corpusVars, snapshot>>
           ELSE /\ patterns' = all.patterns
                /\ Goto("trainer", "tags")
                /\ UNCHANGED <<trained, tags, vectorizer, X, storeVars, last_call, chatVars, objectVars, corpusVars,
                               frame, snapshot>>

\* train, line 77: self.tags = all_tags
TrainStoreTags ==
    /\ pc.trainer = "tags"
    /\ tags' = Collect(frame.trainer.training_data).tags
    /\ Goto("trainer", "fit")
    /\ UNCHANGED <<trained, patterns, vectorizer, X, storeVars, last_call, chatVars, objectVars, corpusVars, frame, snapshot>>

\* train, line 80: fit_transform fits the vectorizer in place, or raises and
\* the handler of lines 86-89 sets self.trained = False
TrainFit ==
    /\ pc.trainer = "fit"
    /\ LET all == Collect(frame.trainer.training_data)
       IN  IF FitRaises(all.patterns)
           THEN /\ trained' = FALSE
                /\ Finish("trainer", FALSE)
                /\ UNCHANGED <<patterns, tags, vectorizer, X, storeVars, last_call, chatVars, objectVars, corpusVars,
                               snapshot>>
           ELSE /\ vectorizer' = Fit(all.patterns)
                /\ Goto("trainer", "matrix")
                /\ UNCHANGED <<trained, patterns, tags, X, storeVars, last_call, chatVars, objectVars, corpusVars,
                               frame, snapshot>>

\* train, line 80: self.X = the matrix fit_transform returned
TrainStoreMatrix ==
    /\ pc.trainer = "matrix"
    /\ X' = FitTransform(Collect(frame.trainer.training_data).patterns)
    /\ Goto("trainer", "flag")
    /\ UNCHANGED <<trained, patterns, tags, vectorizer, storeVars, last_call, chatVars, objectVars, corpusVars,
                   frame, snapshot>>

\* train, lines 81-84: self.trained = True; return True
TrainSetFlag ==
    /\ pc.trainer = "flag"
    /\ trained' = TRUE
    /\ Finish("trainer", TRUE)
    /\ UNCHANGED <<patterns, tags, vectorizer, X, storeVars, last_call, chatVars, objectVars, corpusVars, snapshot>>

\* predict, lines 103-105: if not self.trained
PredictTestFlag ==
    /\ pc.predictor = "predict"
    /\ IF trained
       THEN Goto("predictor", "transform") /\ UNCHANGED frame
       ELSE Finish("predictor", Returned("unknown", 0))
    /\ UNCHANGED <<indexVars, storeVars, last_call, chatVars, objectVars, corpusVars, snapshot>>

\* predict, line 109: text_vector = self.vectorizer.transform([text])
PredictTransform ==
    /\ pc.predictor = "transform"
    /\ frame' = [frame EXCEPT
                    !.predictor.text_vector = Transform(vectorizer, frame.predictor.text)]
    /\ Goto("predictor", "similarity")
    /\ UNCHANGED <<indexVars, storeVars, last_call, chatVars, objectVars, corpusVars, snapshot>>

\* predict, line 112: similarities = cosine_similarity(text_vector, self.X);
\* where it raises, the handler of lines 130-132 returns ("unknown", 0.0)
PredictSimilarity ==
    /\ pc.predictor = "similarity"
    /\ IF SimilarityRaises(frame.predictor.text_vector, X)
       THEN Finish("predictor", Returned("unknown", 0))
       ELSE /\ frame' = [frame EXCEPT !.predictor.similarities =
                            Similarities(frame.predictor.text_vector, X)]
            /\ Goto("predictor", "decide")
    /\ UNCHANGED <<indexVars, storeVars, last_call, chatVars, objectVars, corpusVars, snapshot>>

\* predict, lines 113-128: argmax, the threshold, self.tags[best_match_idx]
PredictDecide ==
    /\ pc.predictor = "decide"
    /\ Finish("predictor", Decide(frame.predictor.similarities, tags,
                                  frame.predictor.application, frame.predictor.context))
    /\ UNCHANGED <<indexVars, storeVars, last_call, chatVars, objectVars, corpusVars, snapshot>>

TrainRaceNext ==
    \/ TrainStorePatterns
    \/ TrainStoreTags
    \/ TrainFit
    \/ TrainStoreMatrix
    \/ TrainSetFlag
    \/ PredictTestFlag
    \/ PredictTransform
    \/ PredictSimilarity
    \/ PredictDecide

SpecTrainRace == TrainRaceInit /\ [][TrainRaceNext]_vars

-----------------------------------------------------------------------------
(* The context store when users introduce themselves: one user, turn after turn *)

NamesNext ==
    \/ \E i \in NameInputs : UpdateContext("u1", i, "ok", "greeting", "customer_support")
    \/ GetContext("u1")
    \/ Tick

SpecNames == Init /\ [][NamesNext]_vars

-----------------------------------------------------------------------------
(* SimpleChatbot (backend/app.py): pattern matching over the preprocessed      *)
(* text.  A response is the text chosen from a table, named by its place in    *)
(* the table, with the name it greets or mentions.                             *)

LowerLetters ==
    {"a", "b", "c", "d", "e", "f", "g", "h", "i", "j", "k", "l", "m",
     "n", "o", "p", "q", "r", "s", "t", "u", "v", "w", "x", "y", "z"}

Digits == {"0", "1", "2", "3", "4", "5", "6", "7", "8", "9"}

\* the characters the pattern \w matches
WordChars == LowerLetters \cup DOMAIN UpperToLower \cup Digits \cup {"_"}

\* re.sub(r'[^\w\s]', '', text)
RemoveNonWord(text) == SelectSeq(text, LAMBDA c : c \in WordChars \cup Whitespace)

\* the length of the run of non-whitespace characters s starts with
WordLength(s) ==
    LET stops == {i \in 1..Len(s) : s[i] \in Whitespace}
    IN  IF stops = {} THEN Len(s)
        ELSE (CHOOSE i \in stops : \A k \in stops : i <= k) - 1

\* str.split()
RECURSIVE Split(_)
Split(s) ==
    IF s = <<>> THEN <<>>
    ELSE IF Head(s) \in Whitespace THEN Split(Tail(s))
    ELSE <<SubSeq(s, 1, WordLength(s))>> \o Split(SliceFrom(s, WordLength(s)))

\* ' '.join(words)
RECURSIVE Join(_)
Join(words) ==
    IF words = <<>> THEN <<>>
    ELSE IF Len(words) = 1 THEN words[1]
    ELSE words[1] \o <<" ">> \o Join(Tail(words))

\* lemmatization_map, as (word, replacement) pairs
LemmatizationMap ==
    << <<<<"a", "r", "e">>, <<"b", "e">>>>,
       <<<<"a", "m">>, <<"b", "e">>>>,
       <<<<"i", "s">>, <<"b", "e">>>>,
       <<<<"w", "a", "s">>, <<"b", "e">>>>,
       <<<<"w", "e", "r", "e">>, <<"b", "e">>>>,
       <<<<"r", "u", "n", "n", "i", "n", "g">>, <<"r", "u", "n">>>>,
       <<<<"r", "a", "n">>, <<"r", "u", "n">>>>,
       <<<<"r", "u", "n", "s">>, <<"r", "u", "n">>>>,
       <<<<"g", "o", "i", "n", "g">>, <<"g", "o">>>>,
       <<<<"w", "e", "n", "t">>, <<"g", "o">>>>,
       <<<<"g", "o", "e", "s">>, <<"g", "o">>>>,
       <<<<"h", "a", "v", "i", "n", "g">>, <<"h", "a", "v", "e">>>>,
       <<<<"h", "a", "d">>, <<"h", "a", "v", "e">>>>,
       <<<<"h", "a", "s">>, <<"h", "a", "v", "e">>>>,
       <<<<"d", "o", "i", "n", "g">>, <<"d", "o">>>>,
       <<<<"d", "i", "d">>, <<"d", "o">>>>,
       <<<<"d", "o", "e", "s">>, <<"d", "o">>>>,
       <<<<"s", "a", "y", "i", "n", "g">>, <<"s", "a", "y">>>>,
       <<<<"s", "a", "i", "d">>, <<"s", "a", "y">>>>,
       <<<<"s", "a", "y", "s">>, <<"s", "a", "y">>>>,
       <<<<"o", "r", "d", "e", "r", "s">>, <<"o", "r", "d", "e", "r">>>>,
       <<<<"o", "r", "d", "e", "r", "e", "d">>, <<"o", "r", "d", "e", "r">>>>,
       <<<<"r", "e", "t", "u", "r", "n", "s">>, <<"r", "e", "t", "u", "r", "n">>>>,
       <<<<"r", "e", "t", "u", "r", "n", "e", "d">>, <<"r", "e", "t", "u", "r", "n">>>>,
       <<<<"p", "r", "o", "b", "l", "e", "m", "s">>, <<"p", "r", "o", "b", "l", "e", "m">>>>,
       <<<<"i", "s", "s", "u", "e", "s">>, <<"i", "s", "s", "u", "e">>>> >>

\* lemmatization_map.get(word, word)
Lemmatize(word) ==
    IF \E i \in 1..Len(LemmatizationMap) : LemmatizationMap[i][1] = word
    THEN LemmatizationMap[CHOOSE i \in 1..Len(LemmatizationMap) :
                              LemmatizationMap[i][1] = word][2]
    ELSE word

\* SimpleTextPreprocessor.preprocess_text
PreprocessText(text) ==
    IF text = <<>> THEN <<>>
    ELSE LET words == Split(RemoveNonWord(Lower(text)))
         IN  Join([i \in 1..Len(words) |-> Lemmatize(words[i])])

\* _load_pattern_responses: per application the pattern groups, in order; each
\* group has two responses
PatternResponses ==
    [customer_support |->
        << << <<"h", "e", "l", "l", "o">>, <<"h", "i">>, <<"h", "e", "y">> >>,
           << <<"o", "r", "d", "e", "r">>, <<"s", "t", "a", "t", "u", "s">>, <<"t", "r", "a", "c", "k">>, <<"p", "a", "c", "k", "a", "g", "e">> >>,
           << <<"r", "e", "t", "u", "r", "n">>, <<"r", "e", "f", "u", "n", "d">>, <<"c", "a", "n", "c", "e", "l">> >>,
           << <<"p", "r", "o", "b", "l", "e", "m">>, <<"i", "s", "s", "u", "e">>, <<"b", "r", "o", "k", "e", "n">>, <<"n", "o", "t", " ", "w", "o", "r", "k", "i", "n", "g">>, <<"d", "e", "f", "e", "c", "t", "i", "v", "e">> >>,
           << <<"s", "h", "i", "p", "p", "i", "n", "g">>, <<"d", "e", "l", "i", "v", "e", "r", "y">>, <<"w", "h", "e", "n">>, <<"a", "r", "r", "i", "v", "e">> >>,
           << <<"p", "a", "y", "m", "e", "n", "t">>, <<"b", "i", "l", "l", "i", "n", "g">>, <<"c", "h", "a", "r", "g", "e">>, <<"c", "r", "e", "d", "i", "t", " ", "c", "a", "r", "d">> >> >>,
     college_helpdesk |->
        << << <<"a", "d", "m", "i", "s", "s", "i", "o", "n">>, <<"a", "p", "p", "l", "y">>, <<"a", "p", "p", "l", "i", "c", "a", "t", "i", "o", "n">>, <<"r", "e", "q", "u", "i", "r", "e", "m", "e", "n", "t", "s">> >>,
           << <<"t", "u", "i", "t", "i", "o", "n">>, <<"f", "e", "e", "s">>, <<"s", "c", "h", "o", "l", "a", "r", "s", "h", "i", "p">>, <<"f", "i", "n", "a", "n", "c", "i", "a", "l">>, <<"a", "i", "d">> >>,
           << <<"c", "o", "u", "r", "s", "e">>, <<"r", "e", "g", "i", "s", "t", "e", "r">>, <<"c", "l", "a", "s", "s">>, <<"s", "c", "h", "e", "d", "u", "l", "e">> >>,
           << <<"c", "a", "m", "p", "u", "s">>, <<"l", "i", "b", "r", "a", "r", "y">>, <<"f", "a", "c", "i", "l", "i", "t", "y">>, <<"h", "o", "u", "r", "s">> >> >>,
     hr_recruitment |->
        << << <<"j", "o", "b">>, <<"o", "p", "e", "n", "i", "n", "g">>, <<"v", "a", "c", "a", "n", "c", "y">>, <<"c", "a", "r", "e", "e", "r">>, <<"p", "o", "s", "i", "t", "i", "o", "n">> >>,
           << <<"a", "p", "p", "l", "y">>, <<"a", "p", "p", "l", "i", "c", "a", "t", "i", "o", "n">>, <<"r", "e", "s", "u", "m", "e">>, <<"c", "v">> >>,
           << <<"i", "n", "t", "e", "r", "v", "i", "e", "w">>, <<"p", "r", "o", "c", "e", "s", "s">>, <<"h", "i", "r", "i", "n", "g">>, <<"s", "t", "a", "g", "e">> >>,
           << <<"s", "a", "l", "a", "r", "y">>, <<"c", "o", "m", "p", "e", "n", "s", "a", "t", "i", "o", "n">>, <<"b", "e", "n", "e", "f", "i", "t">>, <<"p", "a", "y">> >> >>,
     personal_assistant |->
        << << <<"t", "i", "m", "e">>, <<"c", "u", "r", "r", "e", "n", "t">>, <<"c", "l", "o", "c", "k">> >>,
           << <<"w", "e", "a", "t", "h", "e", "r">>, <<"f", "o", "r", "e", "c", "a", "s", "t">>, <<"r", "a", "i", "n">>, <<"t", "e", "m", "p", "e", "r", "a", "t", "u", "r", "e">> >>,
           << <<"r", "e", "m", "i", "n", "d">>, <<"r", "e", "m", "i", "n", "d", "e", "r">>, <<"s", "c", "h", "e", "d", "u", "l", "e">>, <<"m", "e", "e", "t", "i", "n", "g">> >>,
           << <<"j", "o", "k", "e">>, <<"f", "u", "n", "n", "y">>, <<"l", "a", "u", "g", "h">>, <<"h", "u", "m", "o", "r">> >> >>]

\* the texts sent to the chatbot
C_hello == <<"h","e","l","l","o">>
C_time == <<"w","h","a","t"," ","t","i","m","e"," ","i","s"," ","i","t">>
C_sam == <<"M","y"," ","n","a","m","e"," ","i","s"," ","S","a","m">>
C_noname == <<"m","y"," ","n","a","m","e"," ","i","s">>
C_blank == <<" "," ">>
C_empty == <<>>

ChatInputs == {C_hello, C_time, C_sam, C_noname, C_blank, C_empty}

\* the get_response calls the model makes: (user_input, application)
ChatRequests ==
    [u1 |-> { <<C_hello, "unknown_app">>,
              <<C_time, "personal_assistant">>,
              <<C_sam, "unknown_app">>,
              <<C_noname, "personal_assistant">>,
              <<C_blank, "customer_support">>,
              <<C_empty, "customer_support">> },
     u2 |-> { <<C_noname, "customer_support">>,
              <<C_blank, "customer_support">> }]

\* preprocess_text over the model's inputs, computed once
Processed == [i \in ChatInputs |-> PreprocessText(i)]

\* the pattern groups of an application: .get(application, {}).get("patterns", [])
AppPatterns(application) ==
    IF application \in DOMAIN PatternResponses THEN PatternResponses[application] ELSE <<>>

\* match_count / len(pattern_group), in units of 1/ConfScale
GroupConfidence(pattern_group, processed_input) ==
    (Cardinality({i \in 1..Len(pattern_group) :
                     Contains(processed_input, pattern_group[i])}) * ConfScale)
        \div Len(pattern_group)

\* the loop over the groups: the first group of the highest confidence above 0,
\* 0 when no group matches
BestGroup(application, processed_input) ==
    LET groups == AppPatterns(application)
        conf(g) == GroupConfidence(groups[g], processed_input)
        hits == {g \in 1..Len(groups) :
                    /\ conf(g) > 0
                    /\ \A h \in 1..Len(groups) : conf(h) <= conf(g)
                    /\ \A h \in 1..(g - 1) : conf(h) < conf(g)}
    IN  IF hits = {} THEN [group |-> 0, confidence |-> 0]
        ELSE LET g == CHOOSE g \in hits : TRUE
             IN  [group |-> g, confidence |-> conf(g)]

\* BestGroup over the model's calls, computed once
BestGroupOf ==
    [q \in UNION {ChatRequests[u] : u \in DOMAIN ChatRequests} |->
        BestGroup(q[2], Processed[q[1]])]

\* the number of fallback responses of an application
FallbackCount(application) == IF application \in DOMAIN PatternResponses THEN 3 ELSE 1

\* the responses random.choice draws from, and the confidence returned with them
Candidates(user_input, application) ==
    LET best == BestGroupOf[<<user_input, application>>]
    IN  IF best.group = 0 \/ best.confidence < 3 * (ConfScale \div 10)
        THEN {[response |-> [table |-> "fallbacks", application |-> application,
                             group |-> 0, choice |-> k],
               confidence |-> ConfScale \div 10] : k \in 1..FallbackCount(application)}
        ELSE {[response |-> [table |-> "patterns", application |-> application,
                             group |-> best.group, choice |-> k],
               confidence |-> best.confidence] : k \in 1..2}

MyNameIs == <<"m","y"," ","n","a","m","e"," ","i","s">>
QuestionWords == {<<"h","o","w">>, <<"w","h","a","t">>, <<"w","h","e","n">>, <<"w","h","e","r","e">>}

\* the words after "my name is": user_input[name_start:].strip().split()
NameTokens(user_input) ==
    Split(SliceFrom(user_input, Find(Lower(user_input), MyNameIs) + 10))

\* what the model's inputs say about names and questions, computed once
SaysName == [i \in ChatInputs |-> Contains(Lower(i), MyNameIs)]
NameTokensOf == [i \in ChatInputs |-> IF SaysName[i] THEN NameTokens(i) ELSE <<>>]
AsksQuestion == [i \in ChatInputs |-> AnyIn(QuestionWords, Processed[i])]
IsBlank == [i \in ChatInputs |-> \A k \in 1..Len(i) : i[k] \in Whitespace]

\* the text of a response: best_response, "Nice to meet you, {name}! ..." and
\* "... By the way, {name}!"
Plain(response) == [base |-> response, greets |-> None, mentions |-> None]
Greeting(response, name) == [base |-> response, greets |-> name, mentions |-> None]
Mentioning(response, name) == [base |-> response, greets |-> None, mentions |-> name]

PleaseType == Plain([table |-> "please_type"])
Apology == Plain([table |-> "apology"])

\* the dict get_response returns
Reply(response, confidence, application, context_used) ==
    [response |-> response, confidence |-> confidence, application |-> application,
     context_used |-> context_used]

\* lines 202-209: the handler of every exception raised in get_response
OnExceptionKeepsConfidence(application) ==
    Reply(Apology, ConfScale \div 10, application, FALSE)

OnException(application) == Reply(Apology, 0, application, FALSE)

ChatCall(user_id, user_input, application, result) ==
    [op |-> "get_response", user_id |-> user_id,
     args |-> [user_input |-> user_input, application |-> application],
     expired |-> {}, result |-> result]

\* lines 114-119: the context of a user seen for the first time
WithContextAlwaysNew(contexts, user_id, application) ==
    DictSet(contexts, user_id,
            [conversation_history |-> <<>>,
             current_application |-> application,
             user_name |-> None])

WithContext(contexts, user_id, application) ==
    IF user_id \in DOMAIN contexts THEN contexts
    ELSE DictSet(contexts, user_id,
                 [conversation_history |-> <<>>,
                  current_application |-> application,
                  user_name |-> None])

\* lines 188-190: keep only the last 5 messages
LastFive(history) ==
    IF Len(history) > 5 THEN SubSeq(history, Len(history) - 4, Len(history)) ELSE history

\* get_response(user_input, user_id, application)
GetResponse(user_id, user_input, application) ==
    LET started == WithContext(conversation_context, user_id, application)
    IN  /\ \/ /\ IsBlank[user_input]
              /\ conversation_context' = conversation_context
              /\ last_call' = ChatCall(user_id, user_input, application,
                                       Reply(PleaseType, 0, application, FALSE))
           \/ /\ ~IsBlank[user_input]
              /\ SaysName[user_input]
              /\ NameTokensOf[user_input] = <<>>
              /\ conversation_context' = started
              /\ last_call' = ChatCall(user_id, user_input, application,
                                       OnException(application))
           \/ /\ ~IsBlank[user_input]
              /\ ~(SaysName[user_input] /\ NameTokensOf[user_input] = <<>>)
              /\ \E c \in Candidates(user_input, application) :
                    LET named == SaysName[user_input] /\ Len(NameTokensOf[user_input][1]) > 1
                        user_name == IF named THEN NameTokensOf[user_input][1]
                                     ELSE started[user_id].user_name
                        best_response ==
                            IF SaysName[user_input]
                            THEN IF named THEN Greeting(c.response, user_name)
                                 ELSE Plain(c.response)
                            ELSE IF started[user_id].user_name # None
                                    /\ AsksQuestion[user_input]
                            THEN Mentioning(c.response, started[user_id].user_name)
                            ELSE Plain(c.response)
                        history ==
                            LastFive(Append(started[user_id].conversation_history,
                                            [user |-> user_input, bot |-> best_response,
                                             timestamp |-> now,
                                             application |-> application]))
                    IN  /\ conversation_context' =
                               [started EXCEPT ![user_id].user_name = user_name,
                                               ![user_id].conversation_history = history]
                        /\ last_call' = ChatCall(user_id, user_input, application,
                                                 Reply(best_response, c.confidence,
                                                       application, Len(history) > 1))
        /\ UNCHANGED <<storeVars, indexVars, threadVars, corpusVars, objectVars>>

ChatNext ==
    \E u \in DOMAIN ChatRequests : \E q \in ChatRequests[u] : GetResponse(u, q[1], q[2])

SpecChat == Init /\ [][ChatNext]_vars

-----------------------------------------------------------------------------
(* SimpleTextPreprocessor.preprocess_text on its own: a text is handed in and  *)
(* the call returns its normal form.                                           *)

MaxTextLength == 3        \* the longest text handed to preprocess_text

TextChars == {"!", "_", " ", "a", "B"}

Texts == UNION {[1..n -> TextChars] : n \in 0..MaxTextLength}

\* a text waiting to be preprocessed
TextGiven(text) ==
    [op |-> "text", user_id |-> None, args |-> text, expired |-> {}, result |-> None]

PreprocessInit ==
    /\ user_contexts = EmptyDict
    /\ now = 0
    /\ InitClassifier
    /\ NoThreads
    /\ InitChatbot
    /\ NoObjects
    /\ InitData
    /\ \E text \in Texts : last_call = TextGiven(text)

\* preprocess_text(text)
PreprocessTextCall ==
    /\ last_call.op = "text"
    /\ last_call' = [op |-> "preprocess_text", user_id |-> None,
                     args |-> last_call.args, expired |-> {},
                     result |-> PreprocessText(last_call.args)]
    /\ UNCHANGED <<storeVars, indexVars, threadVars, chatVars, objectVars, corpusVars>>

SpecPreprocess == PreprocessInit /\ [][PreprocessTextCall]_vars

-----------------------------------------------------------------------------
(* TrainingDataManager (backend/chatbot_core.py): the corpus in memory and     *)
(* its file.  data is {} until load_data runs; the applications are kept in    *)
(* dict order, each with its patterns, responses and tags.                     *)

MaxAdded == 2             \* the most examples callers add to one corpus

\* _create_default_data: the applications in dict order, each pattern as its words
DefaultData ==
    [applications |-> <<
       [name |-> "customer_support",
        patterns |-> <<
            <<"hello">>, <<"hi">>, <<"hey">>, <<"good", "morning">>,
            <<"good", "afternoon">>, <<"i", "need", "help", "with", "my", "order">>,
            <<"order", "status">>, <<"track", "my", "package">>, <<"return", "policy">>,
            <<"refund", "request">>, <<"cancel", "order">>,
            <<"product", "not", "working">>, <<"broken", "item">>,
            <<"defective", "product">>, <<"shipping", "delay">>,
            <<"when", "will", "my", "order", "arrive">>, <<"delivery", "time">>,
            <<"payment", "issue">>, <<"billing", "problem">>, <<"charge", "dispute">> >>,
        responses |-> <<
            "Hello! I'm here to help with your customer service needs.",
            "I can check your order status. Please provide your order number.",
            "Our return policy allows returns within 30 days of purchase.",
            "I'm sorry to hear you're having issues. Let me help you with that.",
            "For shipping delays, I can check the current status for you.",
            "I can help with payment issues. What seems to be the problem?" >>,
        tags |-> <<
            "greeting", "greeting", "greeting", "greeting", "greeting", "order_help",
            "order_status", "order_status", "return_policy", "refund", "cancel_order",
            "product_issue", "product_issue", "product_issue", "shipping", "shipping",
            "shipping", "payment", "payment", "payment" >>],
       [name |-> "college_helpdesk",
        patterns |-> <<
            <<"admission", "requirements">>, <<"how", "to", "apply">>,
            <<"application", "deadline">>, <<"tuition", "fees">>, <<"scholarships">>,
            <<"financial", "aid">>, <<"course", "registration">>, <<"class", "schedule">>,
            <<"prerequisites">>, <<"campus", "facilities">>, <<"library", "hours">>,
            <<"computer", "lab">> >>,
        responses |-> <<
            "Admission requirements include a completed application and transcripts.",
            "The application deadline for fall semester is August 1st.",
            "Tuition fees vary by program. I can check specific costs for you.",
            "We offer various scholarships based on academic performance.",
            "Course registration opens two weeks before each semester.",
            "The library is open from 8 AM to 10 PM on weekdays." >>,
        tags |-> <<
            "admissions", "admissions", "admissions", "fees", "financial", "financial",
            "registration", "schedule", "courses", "facilities", "facilities", "facilities" >>],
       [name |-> "hr_recruitment",
        patterns |-> <<
            <<"job", "openings">>, <<"current", "vacancies">>,
            <<"career", "opportunities">>, <<"application", "process">>,
            <<"how", "to", "apply">>, <<"submit", "resume">>, <<"interview", "process">>,
            <<"hiring", "stages">>, <<"technical", "interview">>, <<"salary", "range">>,
            <<"compensation">>, <<"benefits", "package">> >>,
        responses |-> <<
            "We have openings in engineering, marketing, and sales departments.",
            "You can apply through our careers portal with your resume.",
            "Our interview process typically includes 3-4 stages.",
            "Salary ranges are competitive and based on experience.",
            "We offer comprehensive health benefits and retirement plans." >>,
        tags |-> <<
            "openings", "openings", "openings", "application", "application",
            "application", "interview", "interview", "interview", "compensation",
            "compensation", "benefits" >>],
       [name |-> "personal_assistant",
        patterns |-> <<
            <<"what's", "the", "time">>, <<"current", "time">>, <<"time", "please">>,
            <<"weather", "today">>, <<"weather", "forecast">>, <<"will", "it", "rain">>,
            <<"set", "reminder">>, <<"remind", "me", "to">>, <<"schedule", "meeting">>,
            <<"tell", "me", "a", "joke">>, <<"make", "me", "laugh">>,
            <<"something", "funny">> >>,
        responses |-> <<
            "I can check the time for you. One moment...",
            "For weather information, I recommend checking a weather app.",
            "I can help you set reminders. What should I remind you about?",
            "Why don't scientists trust atoms? Because they make up everything!",
            "Here's a joke: Why did the scarecrow win an award? He was outstanding in his field!" >>,
        tags |-> <<
            "time", "time", "time", "weather", "weather", "weather", "reminder",
            "reminder", "schedule", "joke", "joke", "joke" >>] >>]

\* the corpus with no application: what ChatbotTrainer keeps and saves when it
\* finds no file
EmptyCorpus == [applications |-> <<>>]

\* the corpus file after json.dump(d) has been written to it
FileWith(d) == [exists |-> TRUE, content |-> d]

\* the examples callers add
E_foo ==
    [application |-> "custom_app", pattern |-> <<"foo", "bar">>,
     response |-> "baz response", tag |-> "foo_tag"]

E_order ==
    [application |-> "customer_support", pattern |-> <<"order", "status">>,
     response |-> "Let me look that order up.", tag |-> "order_status"]

E_where ==
    [application |-> "college_helpdesk", pattern |-> <<"where", "is">>,
     response |-> "Which place do you mean?", tag |-> "directions"]

Examples == {E_foo, E_order, E_where}

\* "applications" in self.data
Loaded(d) == "applications" \in DOMAIN d

AppNames(d) == {d.applications[i].name : i \in 1..Len(d.applications)}

\* how many of the callers' examples a corpus holds
RECURSIVE CountAdded(_)
CountAdded(applications) ==
    IF applications = <<>> THEN 0
    ELSE LET responses == Head(applications).responses
         IN  Cardinality({i \in 1..Len(responses) :
                             responses[i] \in {e.response : e \in Examples}})
                 + CountAdded(Tail(applications))

\* add_example, lines 192-197: the application gets an entry if it has none
WithApplicationNotCreated(d, application) == d

WithApplication(d, application) ==
    IF application \in AppNames(d) THEN d
    ELSE [applications |->
             Append(d.applications,
                    [name |-> application, patterns |-> <<>>,
                     responses |-> <<>>, tags |-> <<>>])]

\* add_example, lines 200-202: the three appends
AppendExampleWithoutTag(d, application, pattern, response, tag) ==
    [applications |->
        AsTuple([i \in 1..Len(d.applications) |->
            LET app == d.applications[i]
            IN  IF app.name = application
                THEN [name |-> app.name,
                      patterns |-> Append(app.patterns, pattern),
                      responses |-> Append(app.responses, response),
                      tags |-> app.tags]
                ELSE app])]

AppendExample(d, application, pattern, response, tag) ==
    [applications |->
        AsTuple([i \in 1..Len(d.applications) |->
            LET app == d.applications[i]
            IN  IF app.name = application
                THEN [name |-> app.name,
                      patterns |-> Append(app.patterns, pattern),
                      responses |-> Append(app.responses, response),
                      tags |-> Append(app.tags, tag)]
                ELSE app])]

\* self.data when add_example returns, saved telling whether save_data wrote
AfterAddExampleRollsBack(d, e, saved) ==
    IF saved
    THEN AppendExample(WithApplication(d, e.application),
                       e.application, e.pattern, e.response, e.tag)
    ELSE d

AfterAddExample(d, e, saved) ==
    AppendExample(WithApplication(d, e.application),
                  e.application, e.pattern, e.response, e.tag)

\* save_data: the file when the call returns; a failed write leaves it alone
AfterSave(file, d, saved) == IF saved THEN FileWith(d) ELSE file

DataCall(op, args, result) ==
    [op |-> op, user_id |-> None, args |-> args, expired |-> {}, result |-> result]

\* the corpus file a process may find: none, or one holding the empty corpus
CorpusInit ==
    /\ InitStore
    /\ InitClassifier
    /\ NoThreads
    /\ InitChatbot
    /\ NoObjects
    /\ data = EmptyDict
    /\ data_file \in {NoFile, FileWith(EmptyCorpus)}

\* load_data
LoadData ==
    /\ \/ /\ data_file.exists
          /\ data' = data_file.content
          /\ UNCHANGED data_file
       \/ /\ ~data_file.exists
          /\ data' = DefaultData
          /\ \E saved \in BOOLEAN : data_file' = AfterSave(data_file, DefaultData, saved)
    /\ last_call' = DataCall("load_data", None, TRUE)
    /\ UNCHANGED <<storeVars, indexVars, threadVars, chatVars, objectVars>>

\* save_data
SaveData ==
    /\ \E saved \in BOOLEAN :
           /\ data_file' = AfterSave(data_file, data, saved)
           /\ last_call' = DataCall("save_data", None, saved)
    /\ UNCHANGED <<data, storeVars, indexVars, threadVars, chatVars, objectVars>>

\* add_example(application, pattern, response, tag)
AddExample(e) ==
    /\ \/ /\ ~Loaded(data)        \* KeyError: 'applications'
          /\ last_call' = DataCall("add_example", e, FALSE)
          /\ UNCHANGED <<data, data_file>>
       \/ /\ Loaded(data)
          /\ CountAdded(data.applications) < MaxAdded
          /\ \E saved \in BOOLEAN :
                 /\ data' = AfterAddExample(data, e, saved)
                 /\ data_file' = AfterSave(data_file, data', saved)
                 /\ last_call' = DataCall("add_example", e, saved)
    /\ UNCHANGED <<storeVars, indexVars, threadVars, chatVars, objectVars>>

CorpusNext ==
    \/ LoadData
    \/ SaveData
    \/ \E e \in Examples : AddExample(e)

SpecCorpus == CorpusInit /\ [][CorpusNext]_vars

-----------------------------------------------------------------------------
(* Training through the chatbot: train(application, pattern, response, tag)    *)
(* adds the example to the corpus and rebuilds the index from the corpus in    *)
(* memory.  The corpus file holds the empty corpus when the process starts.    *)

TrainingInit ==
    /\ InitStore
    /\ InitClassifier
    /\ NoThreads
    /\ InitChatbot
    /\ NoObjects
    /\ data = EmptyDict
    /\ data_file = FileWith(EmptyCorpus)

\* the applications retrain is handed: training_data.get("applications", {})
ApplicationsOf(d) == IF Loaded(d) THEN d.applications ELSE <<>>

\* train: add_example on the corpus, then retrain on the corpus in memory; the
\* result is add_example's
AddTrainingExample(e) ==
    /\ Loaded(data) => CountAdded(data.applications) < MaxAdded
    /\ \E saved \in BOOLEAN :
           /\ data' = IF Loaded(data) THEN AfterAddExample(data, e, saved) ELSE data
           /\ data_file' = IF Loaded(data) THEN AfterSave(data_file, data', saved)
                           ELSE data_file
           /\ \E index \in {AfterTrain(TheIndex, ApplicationsOf(data'))} :
                  /\ trained' = index.trained
                  /\ patterns' = index.patterns
                  /\ tags' = index.tags
                  /\ vectorizer' = index.vectorizer
                  /\ X' = index.X
           /\ last_call' = DataCall("add_training_example", e, Loaded(data) /\ saved)
    /\ UNCHANGED <<storeVars, threadVars, chatVars, objectVars>>

TrainingQueries == {<<"foo", "bar">>, <<"order">>, <<"xyzxyz", "nonsense">>}

\* predict(text, application): the context left at its default, None
Resolve(text, application) ==
    /\ last_call' = [op |-> "predict", user_id |-> None,
                     args |-> [text |-> text, application |-> application,
                               context |-> NoContext],
                     expired |-> {},
                     result |-> PredictOn(trained,
                                          IF trained THEN Score(vectorizer, X, text)
                                          ELSE <<>>,
                                          tags, application, NoContext)]
    /\ UNCHANGED <<indexVars, storeVars, threadVars, chatVars, objectVars, corpusVars>>

TrainingNext ==
    \/ LoadData
    \/ \E e \in Examples : AddTrainingExample(e)
    \/ \E q \in TrainingQueries, a \in QueryApplications : Resolve(q, a)

SpecTraining == TrainingInit /\ [][TrainingNext]_vars

-----------------------------------------------------------------------------
(* ContextManager with object identity.  export_context and import_context    *)
(* hand dicts across the store's boundary, so which dict, list or deque an    *)
(* entry is matters.  In this run heap[id] is a Python object, user_contexts  *)
(* maps a user_id to the id of its context dict, and the entries              *)
(* conversation_history, user_preferences and context_variables of a context  *)
(* dict hold the ids of their objects.                                        *)

MaxObjects == 7      \* objects allocated in one run at most

\* update_context is applied to a context until its message_count reaches this
ObjMaxMessages == MaxMessages + 1

\* the id that stands for None where an object is expected
NoObject == 0

\* a deque(maxlen=max_context_length) and a list, with their items
Deque(items) == [type |-> "deque", items |-> items]

List(items) == [type |-> "list", items |-> items]

\* deque(iterable, maxlen=maxlen): the items it keeps
DequeFromKeepsOldest(items, maxlen) ==
    IF Len(items) > maxlen THEN SubSeq(items, 1, maxlen) ELSE items

DequeFrom(items, maxlen) ==
    IF Len(items) > maxlen
    THEN SubSeq(items, Len(items) - maxlen + 1, Len(items))
    ELSE items

\* the entries of a context dict that hold mutable objects
ObjectKeys == {"conversation_history", "user_preferences", "context_variables"}

\* the value of the context dict heap[id]: its entries, with the objects' contents
ValueOf(h, id) ==
    [k \in DOMAIN h[id] |->
        IF k = "conversation_history" THEN h[h[id][k]].items
        ELSE IF k \in ObjectKeys THEN h[h[id][k]]
        ELSE h[id][k]]

\* the context dicts of the store, by user_id
StoredDicts(contexts, h) == [u \in DOMAIN contexts |-> h[contexts[u]]]

\* _create_new_context: the objects it allocates after `base` others; the dict is the last
NewContextObjects(user_id, t, base) ==
    << Deque(<<>>), EmptyDict, EmptyDict,
       [CreateNewContext(user_id, t) EXCEPT
           !.conversation_history = base + 1,
           !.user_preferences = base + 2,
           !.context_variables = base + 3] >>

\* _cleanup_expired_sessions reads context['last_activity'] of every stored context
\* before it deletes any: a context without the entry raises KeyError
SweepRaises(contexts, h) ==
    \E u \in DOMAIN contexts : "last_activity" \notin DOMAIN h[contexts[u]]

\* _cleanup_expired_sessions: the dict it leaves when it does not raise
Swept(contexts, h, t) ==
    [u \in (DOMAIN contexts) \ ExpiredUsers(StoredDicts(contexts, h), t) |-> contexts[u]]

\* get_context after a sweep that did not raise: the store and the heap it leaves
ObjGetContextDict(contexts, h, user_id, t) ==
    LET live == Swept(contexts, h, t)
    IN  IF user_id \notin DOMAIN live
        THEN [contexts |-> DictSet(live, user_id, Len(h) + 4),
              heap |-> h \o NewContextObjects(user_id, t, Len(h))]
        ELSE [contexts |-> live,
              heap |-> [h EXCEPT ![live[user_id]] = DictSet(@, "last_activity", t)]]

\* get_context allocates only when it creates a context
HasRoomFor(contexts, h, user_id, t) ==
    user_id \in DOMAIN Swept(contexts, h, t) \/ Len(h) + 4 <= MaxObjects

\* the entries get_all_active_sessions reads from each context
SummaryKeys ==
    {"user_name", "current_application", "message_count", "session_start", "last_activity"}

ObjCall(op, user_id, args, result, raised) ==
    [op |-> op, user_id |-> user_id, args |-> args, expired |-> {},
     result |-> result, raised |-> raised]

\* a call that raised KeyError out of _cleanup_expired_sessions: nothing was changed
SweepFails(op, user_id, args) ==
    /\ SweepRaises(user_contexts, heap)
    /\ last_call' = ObjCall(op, user_id, args, "KeyError", TRUE)
    /\ UNCHANGED <<user_contexts, heap>>

\* get_context(user_id)
ObjGetContext(user_id) ==
    /\ \/ SweepFails("get_context", user_id, None)
       \/ /\ ~SweepRaises(user_contexts, heap)
          /\ HasRoomFor(user_contexts, heap, user_id, now)
          /\ \E got \in {ObjGetContextDict(user_contexts, heap, user_id, now)} :
                /\ user_contexts' = got.contexts
                /\ heap' = got.heap
                /\ last_call' = ObjCall("get_context", user_id, None,
                                        got.contexts[user_id], FALSE)
    /\ UNCHANGED <<now, caller, indexVars, threadVars, chatVars, corpusVars>>

\* update_context(user_id, user_input, bot_response, intent, application)
ObjUpdateContext(user_id, user_input, bot_response, intent, application) ==
    /\ \/ SweepFails("update_context", user_id,
                     Turn(now, user_input, bot_response, intent, application))
       \/ /\ ~SweepRaises(user_contexts, heap)
          /\ HasRoomFor(user_contexts, heap, user_id, now)
          /\ \E got \in {ObjGetContextDict(user_contexts, heap, user_id, now)} :
                LET id == got.contexts[user_id]
                    context == got.heap[id]
                    updated == UpdatedContext(ValueOf(got.heap, id), now, user_input,
                                              bot_response, intent, application)
                IN  /\ context.message_count < ObjMaxMessages
                    /\ user_contexts' = got.contexts
                    /\ heap' = [got.heap EXCEPT
                                   ![context.conversation_history].items =
                                       updated.conversation_history,
                                   ![id].current_application = updated.current_application,
                                   ![id].message_count = updated.message_count,
                                   ![id].user_name = updated.user_name,
                                   ![context.context_variables] = updated.context_variables]
                    /\ last_call' = ObjCall("update_context", user_id,
                                            Turn(now, user_input, bot_response, intent,
                                                 application),
                                            None, FALSE)
    /\ UNCHANGED <<now, caller, indexVars, threadVars, chatVars, corpusVars>>

\* set_user_preference(user_id, preference_key, value)
ObjSetUserPreference(user_id, preference_key, value) ==
    /\ \/ SweepFails("set_user_preference", user_id, <<preference_key, value>>)
       \/ /\ ~SweepRaises(user_contexts, heap)
          /\ HasRoomFor(user_contexts, heap, user_id, now)
          /\ \E got \in {ObjGetContextDict(user_contexts, heap, user_id, now)} :
                LET context == got.heap[got.contexts[user_id]]
                IN  /\ user_contexts' = got.contexts
                    /\ heap' = [got.heap EXCEPT
                                   ![context.user_preferences] =
                                       DictSet(@, preference_key, value)]
                    /\ last_call' = ObjCall("set_user_preference", user_id,
                                            <<preference_key, value>>, None, FALSE)
    /\ UNCHANGED <<now, caller, indexVars, threadVars, chatVars, corpusVars>>

\* switch_application(user_id, application)
ObjSwitchApplication(user_id, application) ==
    /\ \/ SweepFails("switch_application", user_id, application)
       \/ /\ ~SweepRaises(user_contexts, heap)
          /\ HasRoomFor(user_contexts, heap, user_id, now)
          /\ \E got \in {ObjGetContextDict(user_contexts, heap, user_id, now)} :
                /\ user_contexts' = got.contexts
                /\ heap' = [got.heap EXCEPT
                               ![got.contexts[user_id]] =
                                   DictSet(@, "current_application", application)]
                /\ last_call' = ObjCall("switch_application", user_id, application,
                                        None, FALSE)
    /\ UNCHANGED <<now, caller, indexVars, threadVars, chatVars, corpusVars>>

\* clear_context(user_id): it does not sweep
ObjClearContext(user_id) ==
    /\ user_contexts' = IF user_id \in DOMAIN user_contexts
                        THEN DictDel(user_contexts, user_id) ELSE user_contexts
    /\ last_call' = ObjCall("clear_context", user_id, None,
                            user_id \in DOMAIN user_contexts, FALSE)
    /\ UNCHANGED <<now, objectVars, indexVars, threadVars, chatVars, corpusVars>>

\* get_all_active_sessions(): after the sweep it reads SummaryKeys of every context
ObjGetAllActiveSessions ==
    /\ \/ SweepFails("get_all_active_sessions", None, None)
       \/ /\ ~SweepRaises(user_contexts, heap)
          /\ user_contexts' = Swept(user_contexts, heap, now)
          /\ heap' = heap
          /\ \E live \in {StoredDicts(user_contexts', heap)} :
                IF \E u \in DOMAIN live : ~(SummaryKeys \subseteq DOMAIN live[u])
                THEN last_call' = ObjCall("get_all_active_sessions", None, None,
                                          "KeyError", TRUE)
                ELSE last_call' = ObjCall("get_all_active_sessions", None, None,
                                          {[SessionSummary(live[u], now) EXCEPT
                                               !.user_id = u] : u \in DOMAIN live},
                                          FALSE)
    /\ UNCHANGED <<now, caller, indexVars, threadVars, chatVars, corpusVars>>

\* export_context(user_id): a copy of the context dict, its history as a new list
ObjExportContext(user_id) ==
    /\ \/ /\ user_id \in DOMAIN user_contexts
          /\ Len(heap) + 2 <= MaxObjects
          /\ LET context == heap[user_contexts[user_id]]
             IN  heap' = heap \o
                     << List(heap[context.conversation_history].items),
                        [context EXCEPT !.conversation_history = Len(heap) + 1] >>
          /\ caller' = caller \cup {Len(heap) + 2}
          /\ last_call' = ObjCall("export_context", user_id, None, Len(heap) + 2, FALSE)
       \/ /\ user_id \notin DOMAIN user_contexts
          /\ last_call' = ObjCall("export_context", user_id, None, NoObject, FALSE)
          /\ UNCHANGED objectVars
    /\ UNCHANGED <<storeVars, indexVars, threadVars, chatVars, corpusVars>>

\* import_context(user_id, context_data): context_data is a dict the caller holds, or None
ObjImportContext(user_id, context_data) ==
    /\ \/ /\ context_data # NoObject
          /\ Len(heap) + 1 <= MaxObjects
          /\ LET dict == heap[context_data]
             IN  IF "conversation_history" \in DOMAIN dict
                 THEN heap' = [heap EXCEPT ![context_data].conversation_history =
                                               Len(heap) + 1] \o
                              << Deque(DequeFrom(heap[dict.conversation_history].items,
                                                 MaxContextLength)) >>
                 ELSE heap' = heap
          /\ user_contexts' = DictSet(user_contexts, user_id, context_data)
          /\ last_call' = ObjCall("import_context", user_id, context_data, TRUE, FALSE)
       \/ /\ context_data = NoObject
          /\ last_call' = ObjCall("import_context", user_id, context_data, FALSE, FALSE)
          /\ UNCHANGED <<user_contexts, heap>>
    /\ UNCHANGED <<now, caller, indexVars, threadVars, chatVars, corpusVars>>

\* the turns of a persisted history longer than max_context_length, oldest first:
\* one turn per tick, the last at time 0
PersistedHistory ==
    [k \in 1..(MaxContextLength + 1) |->
        Turn(k - (MaxContextLength + 1), T_thanks, "ok", "greeting", "customer_support")]

\* persisted context data the caller reads back: complete; without last_activity;
\* without session_start
Persisted ==
    [complete |-> [CreateNewContext("u1", 0) EXCEPT
                      !.conversation_history = AsTuple(PersistedHistory),
                      !.message_count = MaxContextLength + 1],
     no_last_activity |-> [k \in (DOMAIN CreateNewContext("u1", 0)) \ {"last_activity"} |->
                              CreateNewContext("u1", 0)[k]],
     no_session_start |-> [k \in (DOMAIN CreateNewContext("u1", 0)) \ {"session_start"} |->
                              CreateNewContext("u1", 0)[k]]]

\* the caller builds a dict from persisted data (json.load): four new objects
CallerLoads(name) ==
    /\ Len(heap) + 4 <= MaxObjects
    /\ LET value == Persisted[name]
       IN  heap' = heap \o
               << List(value.conversation_history), value.user_preferences,
                  value.context_variables,
                  [value EXCEPT !.conversation_history = Len(heap) + 1,
                                !.user_preferences = Len(heap) + 2,
                                !.context_variables = Len(heap) + 3] >>
    /\ caller' = caller \cup {Len(heap) + 4}
    /\ last_call' = ObjCall("load", None, name, Len(heap) + 4, FALSE)
    /\ UNCHANGED <<storeVars, indexVars, threadVars, chatVars, corpusVars>>

\* the caller writes an entry of a dict it holds: context_data['user_name'] = name
CallerWrites(context_data, name) ==
    /\ heap' = [heap EXCEPT ![context_data] = DictSet(@, "user_name", name)]
    /\ last_call' = ObjCall("write", None, <<context_data, name>>, None, FALSE)
    /\ UNCHANGED <<storeVars, caller, indexVars, threadVars, chatVars, corpusVars>>

\* a pause longer than session_timeout between two calls
LongPause ==
    /\ now + SessionTimeout + 1 <= MaxTime
    /\ now' = now + SessionTimeout + 1
    /\ last_call' = NoCall
    /\ UNCHANGED <<user_contexts, objectVars, indexVars, threadVars, chatVars, corpusVars>>

ObjNext ==
    \/ LongPause
    \/ \E u \in Users : ObjGetContext(u)
    \/ \E u \in Senders :
          ObjUpdateContext(u, T_thanks, "ok", "greeting", "college_helpdesk")
    \/ \E u \in Senders : ObjSetUserPreference(u, "language", "fr")
    \/ \E u \in Senders : ObjSwitchApplication(u, "college_helpdesk")
    \/ \E u \in Users : ObjClearContext(u)
    \/ ObjGetAllActiveSessions
    \/ \E u \in Senders : ObjExportContext(u)
    \/ \E u \in Users, d \in caller \cup {NoObject} : ObjImportContext(u, d)
    \/ \E name \in DOMAIN Persisted : CallerLoads(name)
    \/ \E d \in caller : CallerWrites(d, "Eve")

SpecObjects == Init /\ [][ObjNext]_vars

-----------------------------------------------------------------------------
(* ContextManager under threads: two request threads run update_context on    *)
(* one ContextManager.  No method takes a lock.  A thread can be switched out *)
(* wherever a statement makes a call, so the steps are cut at the calls; the  *)
(* loop of _cleanup_expired_sessions calls in its body, so each turn of the   *)
(* loop is a step.                                                            *)

CtxThreads == {"A", "B"}

\* what each thread was asked to record
RaceRequests ==
    [A |-> <<T_thanks, "ok", "greeting", "college_helpdesk">>,
     B |-> <<T_name, "ok", "greeting", "customer_support">>]

\* `context` of update_context: the dict stored under the user id, or a dict
\* that another thread has since replaced in, or deleted from, user_contexts
Stored == [held |-> "stored"]
DetachedContext(context) == [held |-> "detached", context |-> context]

\* update_context run from start to end, with no other thread
SerialUpdate(contexts, t, user_id, request) ==
    LET got == GetContextDict(contexts, user_id, t)
    IN  [got EXCEPT ![user_id] =
            UpdatedContext(@, t, request[1], request[2], request[3], request[4])]

\* sessions opened at time 0, at a time when they are live or one when they
\* have expired; thread A records a turn for u1, thread B for u1 or for u2
CtxRaceInit ==
    /\ InitClassifier
    /\ InitChatbot
    /\ NoObjects
    /\ InitData
    /\ last_call = NoCall
    /\ \E present \in SUBSET Users, t \in {0, SessionTimeout + 1}, other \in Users :
          /\ user_contexts = [u \in present |-> CreateNewContext(u, 0)]
          /\ now = t
          /\ snapshot = user_contexts
          /\ pc = [th \in CtxThreads |-> "sweep"]
          /\ frame = [th \in CtxThreads |->
                        [user_id |-> IF th = "A" THEN "u1" ELSE other,
                         request |-> RaceRequests[th],
                         context |-> Unassigned,
                         iter_size |-> 0,
                         iter_seen |-> {},
                         expired_users |-> {},
                         raised |-> "none"]]

\* an exception leaves update_context
Raise(th, exception) ==
    /\ pc' = [pc EXCEPT ![th] = "done"]
    /\ frame' = [frame EXCEPT ![th].raised = exception]

\* the frames once the dict stored under user_id has left user_contexts
Detach(frames, user_id, old) ==
    [th \in DOMAIN frames |->
        IF frames[th].user_id = user_id /\ frames[th].context = Stored
        THEN [frames[th] EXCEPT !.context = DetachedContext(old)]
        ELSE frames[th]]

\* one turn of the loop of lines 282-287 on the item of user k
Visit(fr, k) ==
    [fr EXCEPT !.iter_seen = @ \cup {k},
               !.expired_users = IF Expired(user_contexts[k], now)
                                 THEN @ \cup {k} ELSE @]

\* _cleanup_expired_sessions, lines 279-287: the loop starts; the iterator
\* notes the size of the dict
CtxSweepBegin(th) ==
    /\ pc[th] = "sweep"
    /\ IF DOMAIN user_contexts = {}
       THEN /\ pc' = [pc EXCEPT ![th] = "delete"]
            /\ UNCHANGED frame
       ELSE /\ \E k \in DOMAIN user_contexts :
                  frame' = [frame EXCEPT ![th] =
                               [Visit(@, k) EXCEPT
                                   !.iter_size = Cardinality(DOMAIN user_contexts)]]
            /\ pc' = [pc EXCEPT ![th] = "iterate"]
    /\ UNCHANGED <<storeVars, indexVars, last_call, chatVars, objectVars, corpusVars, snapshot>>

\* line 282, the iterator's next item: RuntimeError("dictionary changed size
\* during iteration") when the dict's size is no longer the size noted
CtxSweepNext(th) ==
    /\ pc[th] = "iterate"
    /\ IF Cardinality(DOMAIN user_contexts) # frame[th].iter_size
       THEN Raise(th, "RuntimeError")
       ELSE IF DOMAIN user_contexts \subseteq frame[th].iter_seen
       THEN /\ pc' = [pc EXCEPT ![th] = "delete"]
            /\ UNCHANGED frame
       ELSE /\ \E k \in DOMAIN user_contexts \ frame[th].iter_seen :
                  frame' = [frame EXCEPT ![th] = Visit(@, k)]
            /\ UNCHANGED pc
    /\ UNCHANGED <<storeVars, indexVars, last_call, chatVars, objectVars, corpusVars, snapshot>>

\* lines 289-291: del self.user_contexts[user_id], KeyError when it is gone
CtxSweepDelete(th) ==
    /\ pc[th] = "delete"
    /\ IF frame[th].expired_users = {}
       THEN /\ pc' = [pc EXCEPT ![th] = "lookup"]
            /\ UNCHANGED <<frame, user_contexts>>
       ELSE \E k \in frame[th].expired_users :
               IF k \notin DOMAIN user_contexts
               THEN Raise(th, "KeyError") /\ UNCHANGED user_contexts
               ELSE /\ user_contexts' = DictDel(user_contexts, k)
                    /\ frame' = [Detach(frame, k, user_contexts[k]) EXCEPT
                                    ![th].expired_users = @ \ {k}]
                    /\ UNCHANGED pc
    /\ UNCHANGED <<now, indexVars, last_call, chatVars, objectVars, corpusVars, snapshot>>

\* get_context, line 46: if user_id not in self.user_contexts
CtxLookup(th) ==
    /\ pc[th] = "lookup"
    /\ pc' = [pc EXCEPT ![th] = IF frame[th].user_id \notin DOMAIN user_contexts
                                THEN "insert" ELSE "touch"]
    /\ UNCHANGED <<frame, storeVars, indexVars, last_call, chatVars, objectVars, corpusVars, snapshot>>

\* get_context, lines 47 and 52: store the new context and return it
CtxInsert(th) ==
    /\ pc[th] = "insert"
    /\ LET user_id == frame[th].user_id
           others == IF user_id \in DOMAIN user_contexts
                     THEN Detach(frame, user_id, user_contexts[user_id]) ELSE frame
       IN  /\ user_contexts' = DictSet(user_contexts, user_id,
                                       CreateNewContext(user_id, now))
           /\ frame' = [others EXCEPT ![th].context = Stored]
    /\ pc' = [pc EXCEPT ![th] = "append"]
    /\ UNCHANGED <<now, indexVars, last_call, chatVars, objectVars, corpusVars, snapshot>>

\* get_context, lines 50 and 52: set last_activity and return the context
CtxTouch(th) ==
    /\ pc[th] = "touch"
    /\ IF frame[th].user_id \notin DOMAIN user_contexts
       THEN Raise(th, "KeyError") /\ UNCHANGED user_contexts
       ELSE /\ user_contexts' = [user_contexts EXCEPT
                                    ![frame[th].user_id].last_activity = now]
            /\ frame' = [frame EXCEPT ![th].context = Stored]
            /\ pc' = [pc EXCEPT ![th] = "append"]
    /\ UNCHANGED <<now, indexVars, last_call, chatVars, objectVars, corpusVars, snapshot>>

\* the dict `context` refers to
Held(th) ==
    IF frame[th].context = Stored THEN user_contexts[frame[th].user_id]
    ELSE frame[th].context.context

\* a write through `context`
WriteHeld(th, context, label) ==
    /\ pc' = [pc EXCEPT ![th] = label]
    /\ IF frame[th].context = Stored
       THEN /\ user_contexts' = [user_contexts EXCEPT ![frame[th].user_id] = context]
            /\ UNCHANGED frame
       ELSE /\ frame' = [frame EXCEPT ![th].context = DetachedContext(context)]
            /\ UNCHANGED user_contexts

\* update_context, lines 90-96: append the turn to the history
CtxAppend(th) ==
    /\ pc[th] = "append"
    /\ LET q == frame[th].request
       IN  WriteHeld(th, [Held(th) EXCEPT
                             !.conversation_history =
                                 DequeAppend(@, Turn(now, q[1], q[2], q[3], q[4]),
                                             MaxContextLength)],
                     "record")
    /\ UNCHANGED <<now, indexVars, last_call, chatVars, objectVars, corpusVars, snapshot>>

\* update_context, lines 99-108: the application, the count, the name and the
\* context variables
CtxRecord(th) ==
    /\ pc[th] = "record"
    /\ LET q == frame[th].request
       IN  WriteHeld(th, [Held(th) EXCEPT
                             !.current_application = q[4],
                             !.message_count = @ + 1,
                             !.user_name = ExtractUserName(@, q[1]),
                             !.context_variables = UpdateContextVariables(@, q[1], q[3])],
                     "done")
    /\ UNCHANGED <<now, indexVars, last_call, chatVars, objectVars, corpusVars, snapshot>>

CtxRaceNext ==
    \/ \E th \in CtxThreads : CtxSweepBegin(th)
    \/ \E th \in CtxThreads : CtxSweepNext(th)
    \/ \E th \in CtxThreads : CtxSweepDelete(th)
    \/ \E th \in CtxThreads : CtxLookup(th)
    \/ \E th \in CtxThreads : CtxInsert(th)
    \/ \E th \in CtxThreads : CtxTouch(th)
    \/ \E th \in CtxThreads : CtxAppend(th)
    \/ \E th \in CtxThreads : CtxRecord(th)

SpecCtxRace == CtxRaceInit /\ [][CtxRaceNext]_vars

-----------------------------------------------------------------------------
(* ContextManager: properties *)

\* the history update_context starts from: that of the live context, empty when
\* the context is absent or idle for more than the session timeout
HistoryBefore(u) ==
    IF u \in DOMAIN user_contexts /\ now - user_contexts[u].last_activity <= SessionTimeout
    THEN user_contexts[u].conversation_history
    ELSE <<>>

\* C1: after every call the conversation history of every context holds at most
\* max_context_length turns; update_context appends its turn at the end, and on a
\* full history drops exactly the oldest turn and keeps the others in order.
C1_HistoryBoundedFifo ==
    [][ /\ \A u \in DOMAIN user_contexts' :
               Len(user_contexts'[u].conversation_history) <= MaxContextLength
        /\ last_call'.op = "update_context" =>
               LET old == HistoryBefore(last_call'.user_id)
                   new == user_contexts'[last_call'.user_id].conversation_history
               IN  /\ new[Len(new)] = last_call'.args
                   /\ Len(old) < MaxContextLength =>
                          /\ Len(new) = Len(old) + 1
                          /\ \A i \in 1..Len(old) : new[i] = old[i]
                   /\ Len(old) = MaxContextLength =>
                          /\ Len(new) = MaxContextLength
                          /\ \A i \in 1..(Len(new) - 1) : new[i] = old[i + 1]
      ]_vars

\* C1 witness: a turn was appended to a full history, so the oldest one was dropped
C1_Witness ==
    /\ last_call.op = "update_context"
    /\ user_contexts[last_call.user_id].message_count > MaxContextLength
    /\ Len(user_contexts[last_call.user_id].conversation_history) = MaxContextLength

\* C2: a get_context call for a user whose context has been idle for strictly
\* more than session_timeout returns a freshly created context, and a
\* get_all_active_sessions call at such a time lists no such context.
C2_ExpiredContextReplaced ==
    [][ /\ last_call'.op = "get_context" =>
               LET u == last_call'.user_id
                   got == user_contexts'[last_call'.result]
               IN  (u \in DOMAIN user_contexts
                       /\ now - user_contexts[u].last_activity > SessionTimeout)
                   => /\ got.conversation_history = <<>>
                      /\ got.message_count = 0
                      /\ got.user_name = None
                      /\ got.session_start = now
                      /\ got.last_activity = now
        /\ last_call'.op = "get_all_active_sessions" =>
               \A u \in DOMAIN user_contexts :
                   now - user_contexts[u].last_activity > SessionTimeout
                   => /\ \A summary \in last_call'.result : summary.user_id # u
                      /\ u \notin DOMAIN user_contexts'
      ]_vars

\* C2 witness: get_context swept the caller's own expired session and returned a
\* fresh context
C2_Witness ==
    /\ last_call.op = "get_context"
    /\ last_call.user_id \in last_call.expired
    /\ user_contexts[last_call.result].session_start = now
    /\ user_contexts[last_call.result].message_count = 0

\* C10 (as claimed): after a turn whose input holds a positive and a negative
\* word the stored last_sentiment is "positive".
C10_PositiveWinsOnMixedInput ==
    (/\ last_call.op = "update_context"
     /\ AnyIn(PositiveWords, Lower(last_call.args.user_input))
     /\ AnyIn(NegativeWords, Lower(last_call.args.user_input)))
    => DictGet(user_contexts[last_call.user_id].context_variables,
               "last_sentiment", None) = "positive"

\* C10 (amended): the positive list is checked first and the negative list after
\* it, each hit overwriting last_sentiment: after a turn with a negative word the
\* stored last_sentiment is "negative", also when a positive word is present;
\* it is "positive" after a turn with a positive word and no negative word.
C10_NegativeOverwritesPositive ==
    last_call.op = "update_context" =>
        LET lower == Lower(last_call.args.user_input)
            stored == DictGet(user_contexts[last_call.user_id].context_variables,
                              "last_sentiment", None)
        IN  /\ AnyIn(NegativeWords, lower) => stored = "negative"
            /\ (AnyIn(PositiveWords, lower) /\ ~AnyIn(NegativeWords, lower))
                   => stored = "positive"

\* C10 witness: a turn with both a positive and a negative word was recorded
C10_Witness ==
    /\ last_call.op = "update_context"
    /\ last_call.args.user_input = T_mixed
    /\ AnyIn(PositiveWords, Lower(T_mixed))
    /\ AnyIn(NegativeWords, Lower(T_mixed))
    /\ user_contexts[last_call.user_id].context_variables["last_sentiment"] = "negative"

Punctuation == {".", ",", "!", "?", "'", ";", ":"}

\* C11: a stored user name holds no punctuation character
C11_StoredNameHasNoPunctuation ==
    \A u \in DOMAIN user_contexts :
        user_contexts[u].user_name # None =>
            \A i \in 1..Len(user_contexts[u].user_name) :
                user_contexts[u].user_name[i] \notin Punctuation

\* the input holds one of the name-intro phrases
HasNameIntro(user_input) ==
    \E i \in 1..Len(NamePatterns) : Contains(Lower(user_input), NamePatterns[i])

\* the context of u1 is stored, has not expired, and holds a name
LiveNamed ==
    /\ "u1" \in DOMAIN user_contexts
    /\ ~Expired(user_contexts["u1"], now)
    /\ user_contexts["u1"].user_name # None

\* C12: on a live context that holds a name, an update_context whose input has
\* no name-intro phrase, and a get_context, leave user_name as it was
C12_NameKeptWithoutIntro ==
    [][(/\ LiveNamed
        /\ \/ last_call'.op = "get_context"
           \/ /\ last_call'.op = "update_context"
              /\ ~HasNameIntro(last_call'.args.user_input))
       => /\ "u1" \in DOMAIN user_contexts'
          /\ user_contexts'["u1"].user_name # None
          /\ user_contexts'["u1"].user_name = user_contexts["u1"].user_name]_vars

C12_Witness ==
    /\ last_call.op = "update_context"
    /\ ~HasNameIntro(last_call.args.user_input)
    /\ "u1" \in DOMAIN user_contexts
    /\ user_contexts["u1"].user_name # None
    /\ user_contexts["u1"].message_count >= 3

-----------------------------------------------------------------------------
(* SimpleChatbot: properties *)

GetResponseCalled == last_call.op = "get_response"

\* the call fails inside: "my name is" with no word after it has no [0]
FailsInside(user_input) ==
    /\ \E k \in 1..Len(user_input) : user_input[k] \notin Whitespace
    /\ Contains(Lower(user_input), MyNameIs)
    /\ Split(SliceFrom(user_input, Find(Lower(user_input), MyNameIs) + Len(MyNameIs))) = <<>>

\* C13: get_response returns a reply for every call, and for a call that fails
\* inside the reply is the apology with confidence 0.0 and context_used false
C13_FailureYieldsApology ==
    GetResponseCalled =>
        /\ DOMAIN last_call.result = {"response", "confidence", "application", "context_used"}
        /\ last_call.result.application = last_call.args.application
        /\ FailsInside(last_call.args.user_input) =>
               /\ last_call.result.response = Apology
               /\ last_call.result.confidence = 0
               /\ last_call.result.context_used = FALSE

C13_Witness ==
    /\ GetResponseCalled
    /\ FailsInside(last_call.args.user_input)
    /\ last_call.result.response = Apology
    /\ Len(conversation_context[last_call.user_id].conversation_history) > 1

-----------------------------------------------------------------------------
(* IntentClassifier: properties.  predict leaves the index as it found it, so  *)
(* after a predict call the similarities it worked from can be computed again  *)
(* from the index and the call's text.                                         *)

PredictCalled == last_call.op = "predict"

\* the similarities of the last predict call, <<>> where it had none
QuerySims ==
    IF trained THEN Score(vectorizer, X, last_call.args.text) ELSE <<>>

\* the raw similarity of the best match, and the pattern's tag entry
Raw == QuerySims[ArgMax(QuerySims)]
Matched == tags[ArgMax(QuerySims)]

\* the boost conditions of the last predict call
InApplication == Matched.application = last_call.args.application
InRecentHistory ==
    /\ last_call.args.context # NoContext
    /\ LET history == last_call.args.context.conversation_history
       IN  \E i \in 1..Len(history) :
               i > Len(history) - 3 /\ history[i].intent = Matched.tag

\* C3: every predict call that returns a tag other than "unknown" returns an
\* adjusted confidence of at least 0 and at most 1.0
C3_AdjustedConfidenceWithinUnit ==
    (PredictCalled /\ last_call.result.tag # "unknown") =>
        /\ 0 <= last_call.result.confidence
        /\ last_call.result.confidence <= ConfScale

\* C7: predict returns ("unknown", 0.0), as a normal result, whenever no build
\* of the index has succeeded and whenever the text is empty
C7_FailsClosed ==
    (PredictCalled /\ (X = NoMatrix \/ last_call.args.text = <<>>)) =>
        last_call.result = Returned("unknown", 0)

C7_Witness ==
    /\ PredictCalled
    /\ trained
    /\ X # NoMatrix
    /\ last_call.args.text = <<>>
    /\ last_call.result = Returned("unknown", 0)

\* C8: a best raw similarity below the threshold returns "unknown" with the raw
\* similarity itself as confidence, and a tag other than "unknown" is returned
\* only for a raw similarity of at least the threshold
C8_BelowThresholdReturnsRaw ==
    PredictCalled =>
        /\ (QuerySims # <<>> /\ Raw < MinConfidence) =>
               last_call.result = Returned("unknown", Raw)
        /\ last_call.result.tag # "unknown" =>
               (QuerySims # <<>> /\ Raw >= MinConfidence)

C8_Witness ==
    /\ PredictCalled
    /\ QuerySims # <<>>
    /\ 0 < Raw
    /\ Raw < MinConfidence
    /\ last_call.result = Returned("unknown", Raw)

\* C9: for a matched query the adjusted confidence is at least the raw
\* similarity when the pattern's application is the requested one or the tag is
\* among the intents of the last 3 turns, and is the raw similarity when neither
C9_BoostNeverLowers ==
    (PredictCalled /\ last_call.result.tag # "unknown") =>
        /\ (InApplication \/ InRecentHistory) => last_call.result.confidence >= Raw
        /\ (~InApplication /\ ~InRecentHistory) => last_call.result.confidence = Raw

C9_Witness ==
    /\ PredictCalled
    /\ last_call.result.tag # "unknown"
    /\ ~InApplication
    /\ InRecentHistory
    /\ Len(last_call.args.context.conversation_history) > 3
    /\ last_call.result.confidence > Raw

-----------------------------------------------------------------------------
(* IntentClassifier under threads: properties *)

\* predict run from start to end on one index
PredictSerial(index, call) ==
    PredictOn(index.trained,
              IF index.trained THEN Score(index.vectorizer, index.X, call.text) ELSE <<>>,
              index.tags, call.application, call.context)

\* C4: a query that runs while the index is rebuilt returns what the index
\* before the rebuild or the index after the rebuild gives for it
C4_QuerySeesOneIndexVersion ==
    pc.predictor = "done" =>
        frame.predictor.result \in
            {PredictSerial(snapshot, frame.predictor),
             PredictSerial(AfterTrain(snapshot, frame.trainer.training_data),
                           frame.predictor)}

-----------------------------------------------------------------------------
(* ContextManager under threads: properties *)

BothReturned == pc.A = "done" /\ pc.B = "done"

\* the stores the two calls leave when one runs after the other
SerialOutcomes ==
    LET a == frame.A
        b == frame.B
    IN  {SerialUpdate(SerialUpdate(snapshot, now, a.user_id, a.request),
                      now, b.user_id, b.request),
         SerialUpdate(SerialUpdate(snapshot, now, b.user_id, b.request),
                      now, a.user_id, a.request)}

\* C5: two update_context calls for one user leave that user's context as the
\* two calls run in some order leave it: the count two higher, both turns kept
C5_SameUserUpdatesSerialize ==
    (BothReturned /\ frame.A.user_id = frame.B.user_id) =>
        /\ frame.A.user_id \in DOMAIN user_contexts
        /\ \E serial \in SerialOutcomes :
               user_contexts[frame.A.user_id] = serial[frame.A.user_id]

\* C6: two calls for different users both complete, and leave each user's
\* context as the two calls run one after the other leave it
C6_DifferentUsersIndependent ==
    (BothReturned /\ frame.A.user_id # frame.B.user_id) =>
        /\ \A th \in CtxThreads : frame[th].raised = "none"
        /\ \E serial \in SerialOutcomes :
               \A th \in CtxThreads :
                   /\ frame[th].user_id \in DOMAIN user_contexts
                   /\ user_contexts[frame[th].user_id] = serial[frame[th].user_id]

-----------------------------------------------------------------------------
(* TrainingDataManager and training: properties *)

\* the corpus holding one example and nothing else
SingleExample(e) ==
    [applications |->
        << [name |-> e.application, patterns |-> <<e.pattern>>,
            responses |-> <<e.response>>, tags |-> <<e.tag>>] >>]

OnEmptyCorpus == Loaded(data) /\ data.applications = <<>>

\* C14: train of an example on the empty corpus publishes it in the same call:
\* the corpus and the rows of the index are that example, the call returns true
\* when the file was written, and for train("custom_app", "foo bar",
\* "baz response", "foo_tag") the index is queryable and every following resolve
\* of "foo bar" for "custom_app" on that corpus returns ("foo_tag", 1.0)
C14_TrainedExampleIsQueryable ==
    [][/\ (OnEmptyCorpus /\ last_call'.op = "add_training_example") =>
              /\ data' = SingleExample(last_call'.args)
              /\ patterns' = <<last_call'.args.pattern>>
              /\ tags' = << [application |-> last_call'.args.application,
                             tag |-> last_call'.args.tag] >>
              /\ last_call'.result = (data_file' = FileWith(data'))
              /\ last_call'.args = E_foo => trained'
       /\ (/\ Loaded(data)
           /\ data = SingleExample(E_foo)
           /\ last_call'.op = "predict"
           /\ last_call'.args.text = E_foo.pattern
           /\ last_call'.args.application = E_foo.application) =>
              last_call'.result = Returned(E_foo.tag, ConfScale)]_vars

C14_Witness ==
    /\ last_call.op = "predict"
    /\ last_call.args.text = E_foo.pattern
    /\ last_call.args.application = E_foo.application
    /\ last_call.result = Returned(E_foo.tag, ConfScale)
    /\ Loaded(data)
    /\ data = SingleExample(E_foo)
    /\ data_file = FileWith(data)

\* the entry of an application in a loaded corpus, an empty one when it has none
EntryOf(d, application) ==
    IF application \in AppNames(d)
    THEN d.applications[CHOOSE i \in 1..Len(d.applications) :
                            d.applications[i].name = application]
    ELSE [name |-> application, patterns |-> <<>>, responses |-> <<>>, tags |-> <<>>]

\* C15: add_example on a loaded corpus returns false exactly when the file was
\* not written, and then the corpus in memory still has the pattern, response
\* and tag appended to the application's arrays
C15_FailedSaveKeepsExample ==
    [][(Loaded(data) /\ last_call'.op = "add_example") =>
           /\ last_call'.result = (data_file' # data_file)
           /\ ~last_call'.result =>
                  LET e == last_call'.args
                      before == EntryOf(data, e.application)
                      after == EntryOf(data', e.application)
                  IN  /\ Loaded(data')
                      /\ e.application \in AppNames(data')
                      /\ after.patterns = Append(before.patterns, e.pattern)
                      /\ after.responses = Append(before.responses, e.response)
                      /\ after.tags = Append(before.tags, e.tag)]_vars

C15_Witness ==
    /\ last_call.op = "add_example"
    /\ last_call.result = FALSE
    /\ Loaded(data)
    /\ last_call.args.application \in AppNames(data)
    /\ LET after == EntryOf(data, last_call.args.application)
       IN  /\ after.patterns # <<>>
           /\ after.patterns[Len(after.patterns)] = last_call.args.pattern
    /\ data_file.exists
    /\ data_file.content # data

\* C17 as stated: in a loaded corpus the patterns, responses and tags of each
\* application have the same length
C17_ThreeArraysSameLength ==
    Loaded(data) =>
        \A i \in 1..Len(data.applications) :
            /\ Len(data.applications[i].patterns) = Len(data.applications[i].responses)
            /\ Len(data.applications[i].responses) = Len(data.applications[i].tags)

\* C17: in a loaded corpus the patterns and tags of each application have the
\* same length, and add_example makes each of the three arrays one longer
C17_PatternsAndTagsSameLength ==
    /\ [](Loaded(data) =>
            \A i \in 1..Len(data.applications) :
                Len(data.applications[i].patterns) = Len(data.applications[i].tags))
    /\ [][(Loaded(data) /\ last_call'.op = "add_example") =>
              LET e == last_call'.args
                  before == EntryOf(data, e.application)
                  after == EntryOf(data', e.application)
              IN  /\ Len(after.patterns) = Len(before.patterns) + 1
                  /\ Len(after.responses) = Len(before.responses) + 1
                  /\ Len(after.tags) = Len(before.tags) + 1]_vars

C17_Witness ==
    /\ last_call.op = "add_example"
    /\ Loaded(data)
    /\ LET after == EntryOf(data, "customer_support")
       IN  /\ Len(after.patterns) = Len(after.tags)
           /\ Len(after.patterns) > Len(after.responses)
           /\ Len(after.responses) > Len(DefaultData.applications[1].responses)

-----------------------------------------------------------------------------
(* IntentClassifier: properties of train *)

TrainCalled == last_call.op = "train"

\* the applications of a corpus whose pattern and tag counts are the same
Matching(applications) ==
    SelectSeq(applications, LAMBDA app : Len(app.patterns) = Len(app.tags))

\* the patterns of a list of applications, one after the other
RECURSIVE RowsOf(_)
RowsOf(applications) ==
    IF applications = <<>> THEN <<>>
    ELSE Head(applications).patterns \o RowsOf(Tail(applications))

\* for each of those patterns, its application and its tag
RECURSIVE PairsOf(_)
PairsOf(applications) ==
    IF applications = <<>> THEN <<>>
    ELSE LET app == Head(applications)
         IN  [i \in 1..Len(app.patterns) |-> [application |-> app.name, tag |-> app.tags[i]]]
                 \o PairsOf(Tail(applications))

HasMismatch(applications) == Matching(applications) # applications

\* C16: after train on a corpus in which the other applications have patterns,
\* the rows of the index are the patterns of the applications with matching
\* counts, in corpus order, each with its own application and tag; the
\* mismatched application has no row, and the call fails only where it fails on
\* the corpus without that application
C16_MismatchedApplicationSkipped ==
    (TrainCalled /\ RowsOf(Matching(last_call.args)) # <<>>) =>
        LET rows == RowsOf(Matching(last_call.args))
        IN  /\ patterns = rows
            /\ tags = PairsOf(Matching(last_call.args))
            /\ last_call.result = ~FitRaises(rows)
            /\ last_call.result => trained /\ Len(X.rows) = Len(rows)

C16_Witness ==
    /\ TrainCalled
    /\ HasMismatch(last_call.args)
    /\ last_call.result = TRUE
    /\ trained
    /\ Len(patterns) = Len(RowsOf(last_call.args)) - 2
    /\ \A i \in 1..Len(tags) : tags[i].application # "customer_support"

\* C18 as stated: train on a corpus with at least one non-empty pattern in an
\* application whose counts match returns true and leaves the index queryable
C18_FailsOnlyWithoutPatterns ==
    (/\ TrainCalled
     /\ \E i \in 1..Len(RowsOf(Matching(last_call.args))) :
            RowsOf(Matching(last_call.args))[i] # <<>>) =>
        /\ last_call.result = TRUE
        /\ trained

-----------------------------------------------------------------------------
(* IntentClassifier: properties of get_similar_intents *)

GetSimilarCalled == last_call.op = "get_similar_intents"

\* the similarities of the call's text to the rows of the index
SimilarSims == Score(vectorizer, X, last_call.args.text)

\* the rows of positive similarity, highest first, equal ones in corpus order
RECURSIVE Ranked(_, _)
Ranked(sims, rows) ==
    IF rows = {} THEN <<>>
    ELSE LET best == CHOOSE i \in rows :
                         \A j \in rows \ {i} :
                             sims[j] < sims[i] \/ (sims[j] = sims[i] /\ i < j)
         IN  <<best>> \o Ranked(sims, rows \ {best})

\* C19 as stated: get_similar returns the rows of positive similarity in
\* descending order, equal ones in first-occurrence corpus order, cut to top_k,
\* so its first element is the row resolve picks as best match
C19_SimilarRankedLikeResolve ==
    (GetSimilarCalled /\ trained) =>
        LET sims == SimilarSims
            ranked == Ranked(sims, {i \in 1..Len(sims) : sims[i] > 0})
            kept == SubSeq(ranked, 1, Min(last_call.args.top_k, Len(ranked)))
        IN  /\ Len(last_call.result) <= Len(kept)
            /\ \A i \in 1..Len(last_call.result) :
                   /\ last_call.result[i].tag = tags[kept[i]].tag
                   /\ last_call.result[i].confidence = sims[kept[i]]
            /\ last_call.result # <<>> =>
                   last_call.result[1].tag = tags[ArgMax(sims)].tag

-----------------------------------------------------------------------------
(* SimpleTextPreprocessor: properties *)

\* the characters that are letters or digits
Alphanumeric == LowerLetters \cup DOMAIN UpperToLower \cup Digits

\* C20 as stated: preprocess_text of a text with no letter and no digit in it
\* returns the empty string
C20_PunctuationOnlyGivesEmpty ==
    (/\ last_call.op = "preprocess_text"
     /\ \A i \in 1..Len(last_call.args) : last_call.args[i] \notin Alphanumeric) =>
        last_call.result = <<>>

-----------------------------------------------------------------------------
(* ContextManager: properties of access and of the turn count *)

\* the context of user u is stored and has not been idle longer than the timeout
Live(u) ==
    /\ u \in DOMAIN user_contexts
    /\ now - user_contexts[u].last_activity <= SessionTimeout

\* C24: get_context and update_context set last_activity of the caller's live
\* context to the current time and keep its user_id and session_start;
\* get_context keeps every other field, update_context counts on and drops no
\* stored name; and no call but clear_context removes a context that has not
\* been idle longer than session_timeout, whatever its age
C24_AccessKeepsSessionAlive ==
    [][ /\ (last_call'.op \in {"get_context", "update_context"}
                /\ Live(last_call'.user_id)) =>
               LET u == last_call'.user_id
                   old == user_contexts[u]
               IN  /\ u \in DOMAIN user_contexts'
                   /\ user_contexts'[u].last_activity = now
                   /\ user_contexts'[u].session_start = old.session_start
                   /\ user_contexts'[u].user_id = old.user_id
                   /\ last_call'.op = "get_context" =>
                          user_contexts'[u] = [old EXCEPT !.last_activity = now]
                   /\ last_call'.op = "update_context" =>
                          /\ user_contexts'[u].message_count = old.message_count + 1
                          /\ old.user_name # None => user_contexts'[u].user_name # None
        /\ \A v \in DOMAIN user_contexts :
               (Live(v) /\ ~(last_call'.op = "clear_context" /\ last_call'.user_id = v))
                   => v \in DOMAIN user_contexts'
      ]_vars

\* C24 witness: a context older than the timeout was accessed again and is the
\* one created at the start, with its turns
C24_Witness ==
    /\ last_call.op = "get_context"
    /\ last_call.user_id \notin last_call.expired
    /\ LET context == user_contexts[last_call.user_id]
       IN  /\ now - context.session_start > SessionTimeout
           /\ context.last_activity = now
           /\ context.message_count >= 2
           /\ context.user_name # None

\* C25: update_context on a live context adds one to message_count, on a new or
\* replaced context it leaves 1; the context's current_application is the
\* turn's application and its last history entry is the turn
C25_CountsEveryTurn ==
    [][last_call'.op = "update_context" =>
           LET u == last_call'.user_id
               context == user_contexts'[u]
           IN  /\ context.message_count =
                      (IF Live(u) THEN user_contexts[u].message_count ELSE 0) + 1
               /\ context.current_application = last_call'.args.application
               /\ context.conversation_history # <<>>
               /\ context.conversation_history[Len(context.conversation_history)]
                      = last_call'.args
      ]_vars

\* C25 witness: more turns were counted than the history holds
C25_Witness ==
    /\ last_call.op = "update_context"
    /\ LET context == user_contexts[last_call.user_id]
       IN  /\ context.message_count = MaxContextLength + 1
           /\ Len(context.conversation_history) = MaxContextLength
           /\ context.current_application = last_call.args.application

-----------------------------------------------------------------------------
(* SimpleChatbot: properties of the stored name and of the calls that fail *)

\* the name get_response holds for a user, None when it holds none
StoredName(contexts, user_id) ==
    IF user_id \in DOMAIN contexts THEN contexts[user_id].user_name ELSE None

\* C23: once a name is stored for a user, every call of that user that says no
\* name leaves it stored, and the response to such a call whose text holds one
\* of the words how, what, when, where mentions the name
C23_LaterQuestionMentionsName ==
    [][(/\ last_call'.op = "get_response"
        /\ StoredName(conversation_context, last_call'.user_id) # None
        /\ ~SaysName[last_call'.args.user_input]) =>
           /\ StoredName(conversation_context, last_call'.user_id)
                  = StoredName(conversation_context', last_call'.user_id)
           /\ (~IsBlank[last_call'.args.user_input]
                   /\ AsksQuestion[last_call'.args.user_input]) =>
                  /\ last_call'.result.response.mentions # None
                  /\ last_call'.result.response.mentions
                         = StoredName(conversation_context, last_call'.user_id)
      ]_vars

\* C23 witness: "what time is it" was answered with the name after "My name is
\* Sam" and a "hello" in between
C23_Witness ==
    /\ last_call.op = "get_response"
    /\ last_call.args.user_input = C_time
    /\ last_call.result.response.mentions # None
    /\ last_call.result.response.mentions = <<"S", "a", "m">>
    /\ LET history == conversation_context[last_call.user_id].conversation_history
       IN  /\ Len(history) >= 3
           /\ history[Len(history) - 2].user = C_sam
           /\ history[Len(history) - 1].user = C_hello
           /\ history[Len(history)].user = C_time

\* C30 as stated: a call that returns the apology or the "please type a message"
\* response leaves conversation_context as it was
C30_FailedCallLeavesNoTrace ==
    [][(/\ last_call'.op = "get_response"
        /\ last_call'.result.response \in {Apology, PleaseType}) =>
           conversation_context' = conversation_context
      ]_vars

\* C26 as stated: get_similar_intents(text, top_k) returns at most top_k entries,
\* none for top_k = 0
C26_AtMostTopK ==
    GetSimilarCalled => Len(last_call.result) <= last_call.args.top_k

\* C28 as stated: a train call that returns false on an index built before
\* leaves the index as it was, so that queries answer as before, and the
\* patterns, the tags and the matrix have the same number of rows
C28_FailedRebuildKeepsIndex ==
    [][(last_call'.op = "train" /\ last_call'.result = FALSE /\ trained) =>
           /\ trained'
           /\ patterns' = patterns
           /\ tags' = tags
           /\ vectorizer' = vectorizer
           /\ X' = X
           /\ Len(patterns') = Len(tags')
           /\ Len(patterns') = Len(X'.rows)
      ]_vars

-----------------------------------------------------------------------------
(* ContextManager with object identity: properties *)

\* the items of the conversation history of the context stored for user_id
StoredHistory(contexts, h, user_id) == h[h[contexts[user_id]].conversation_history].items

\* C21: import_context of a dict whose history has more than max_context_length
\* entries stores exactly the last max_context_length of them, in their order, and
\* no stored history ever holds more than max_context_length entries, whatever
\* update_context appends afterwards.
C21_ImportKeepsMostRecent ==
    [][/\ (last_call'.op = "import_context" /\ last_call'.result = TRUE) =>
              LET given == heap[heap[last_call'.args].conversation_history].items
                  kept == StoredHistory(user_contexts', heap', last_call'.user_id)
              IN  Len(given) > MaxContextLength =>
                      /\ Len(kept) = MaxContextLength
                      /\ \A i \in 1..MaxContextLength :
                             kept[i] = given[Len(given) - MaxContextLength + i]
       /\ \A u \in DOMAIN user_contexts' :
              Len(StoredHistory(user_contexts', heap', u)) <= MaxContextLength
      ]_vars

\* update_context has appended to a full history whose oldest entry was imported
C21_Witness ==
    /\ last_call.op = "update_context"
    /\ ~last_call.raised
    /\ LET items == StoredHistory(user_contexts, heap, last_call.user_id)
       IN  /\ Len(items) = MaxContextLength
           /\ items[1].application = "customer_support"
           /\ items[Len(items)] = last_call.args

\* the context dicts the store holds
StoredIds(contexts) == {contexts[u] : u \in DOMAIN contexts}

\* C22: a dict export_context returned, held by the caller and not stored, keeps
\* the value of every entry through later update_context and set_user_preference
\* calls, and a write the caller makes to a dict it holds changes the value of no
\* stored context.
C22_NoAliasing ==
    [][/\ last_call'.op \in {"update_context", "set_user_preference"} =>
              \A d \in caller \ StoredIds(user_contexts') :
                  ValueOf(heap', d) = ValueOf(heap, d)
       /\ last_call'.op = "write" =>
              \A u \in DOMAIN user_contexts :
                  ValueOf(heap', user_contexts[u]) = ValueOf(heap, user_contexts[u])
      ]_vars

\* C27: get_context, update_context and get_all_active_sessions never raise,
\* whatever import_context stored before.  (A store into which nothing was
\* imported holds only complete contexts, so the statement is made of every call.)
C27_ImportNeverBreaksTheSweep ==
    last_call.op \in {"get_context", "update_context", "get_all_active_sessions"} =>
        ~last_call.raised

\* C29: get_context, update_context, set_user_preference, switch_application and
\* clear_context for one user leave the value of every other user's context as it
\* was, or remove it, and remove it only when it was idle longer than
\* session_timeout.
C29_OtherUsersUntouched ==
    [][last_call'.op \in {"get_context", "update_context", "set_user_preference",
                          "switch_application", "clear_context"} =>
           \A v \in (DOMAIN user_contexts) \ {last_call'.user_id} :
               IF v \in DOMAIN user_contexts'
               THEN ValueOf(heap', user_contexts'[v]) = ValueOf(heap, user_contexts[v])
               ELSE Expired(heap[user_contexts[v]], now)
      ]_vars

=============================================================================
